---- MODULE Spec2Model ----
(***************************************************************************)
(* Verification model of the face registration / recognition service.      *)
(*                                                                         *)
(* Two stacks live side by side in the repository:                         *)
(*   - the "api" stack   (backend/src/api, services/face_service.py,        *)
(*                        utils/database.py)                               *)
(*   - the "legacy" stack (backend/routes, services/                        *)
(*                        face_recognition_service.py, database_service.py)*)
(* Both are modelled; definitions of the legacy stack carry the suffix     *)
(* Legacy where the source uses the same name in both stacks.              *)
(*                                                                         *)
(* Real numbers (distances, tolerances, confidences) are exact rationals   *)
(* with denominator Scale; pose angles are whole degrees.                  *)
(***************************************************************************)
EXTENDS Integers, Sequences, FiniteSets, TLC

Min(a, b) == IF a <= b THEN a ELSE b

SeqsUpTo(S, n) == UNION {[1..k -> S] : k \in 0..n}

Abs(a) == IF a < 0 THEN 0 - a ELSE a

\* Number of model units in 1.0: a multiple of 540 (pose adjustment of the
\* api stack), 900 (legacy stack) and 20 (tolerances are multiples of 0.05).
Scale == 90 * 60

\* n/d as a number of model units.
Frac(n, d) == (n * Scale) \div d

One == Scale

(***************************************************************************)
(* State.  Each specification below drives one group of variables and      *)
(* leaves the other groups in their idle value.                            *)
(***************************************************************************)
VARIABLES
    \* a call of compare_faces
    cmp_call,      \* its arguments
    cmp_done,      \* whether it has returned
    cmp_result,    \* its return value
    \* one request of recognize_face (src/api/recognition.py)
    r_pc,          \* position of the handler
    r_image,       \* image_data / image_array: "none", "ok" or "undecodable"
    r_face_found,  \* face_locations is not empty
    r_encoded,     \* face_encoding is not None
    r_tolerance,   \* face_service.tolerance
    r_analysis,    \* face_analysis
    r_db,          \* db_face_encodings
    r_scan,        \* best_match, lowest_distance, total_comparisons, used_poses
    r_raised,      \* an exception reached the handler's except clause
    r_response,    \* the response
    r_user,        \* what get_user_by_id returned: "unread", "row" or "none" (None)
    \* a round trip through the multi-angle codec of FaceRecognitionService
    codec_pc,      \* "encode", "decode" or "done"
    codec_in,      \* face_encodings, the vectors to store
    codec_blob,    \* the stored bytes
    codec_out,     \* what decode_multiple_from_bytes returns
    \* concurrent recognition requests at the gate
    g_limit,       \* config.MAX_CONCURRENT_RECOGNITIONS of this run
    g_value,       \* recognition_semaphore: permits left
    g_waiters,     \* recognition_semaphore: requests waiting, first come first
    g_pc,          \* where each request is
    g_exit,        \* how each request left the gated section
    g_released,    \* how many permits each request has given back
    \* the identity store, shared by the two stacks
    st_users,      \* rows of the users table
    st_files,      \* image files on disk
    st_cache,      \* response_cache of routes/users.py: ids with a live entry
    st_next,       \* the next fresh identifier
    st_deleted,    \* rows whose deletion was reported successful
    st_req,        \* the last request and its answer
    \* one call of a multi-angle encoder
    ma_call,        \* the stack called and what each encoding step does
    ma_done,        \* whether it has returned
    ma_result,      \* its return value
    \* the stored embeddings of the records, under registration, re-encoding and deletion
    e_rows,         \* per identifier: present, face_encoding, multi_angle_encodings, re-encoded
    e_op,           \* the last operation applied
    \* the response bodies of the handlers that return user records
    b_users,        \* ids of the rows of the users table
    b_cache,        \* the cache table entry of the api listing
    b_users_cache,  \* _users_cache of routes/users.py
    b_body,         \* the last response body
    \* repeated calls of compare_faces on one service instance
    d_tolerance,    \* self.tolerance of the FaceService instance
    d_results,      \* per argument tuple, the results returned so far
    d_count,        \* per argument tuple, the number of calls so far
    d_last,         \* the last method called
    \* threads calling into the face_recognition library
    k_lock,         \* FACE_RECOGNITION_LOCK: the thread holding it, 0 when free
    k_threads,      \* per thread: the stack it serves, the call it is at, where it stands
    \* the connection of the store operation in progress
    c_op,           \* the operation: its name, its stack, where it is, how it ended
    c_conn,         \* its sqlite3 connection: open, and with a transaction pending
    c_leaked,       \* connections earlier operations left open
    \* analyze_face of both stacks, one call
    a_call,         \* the stack and the pose estimated from the landmarks
    a_result,       \* the pose label and the recommendations it returned
    \* FACE_RECOGNITION_LOCK and the callers of FaceRecognitionService
    l_lock,         \* the thread that holds FACE_RECOGNITION_LOCK, or 0
    l_threads,      \* the call stack of each thread and whether it is inside a with block
    l_outcome,      \* how the last guarded library call ended
    \* an observer of the gate: who was admitted after waiting
    w_waited        \* the requests that were woken by a release

cmp_vars == <<cmp_call, cmp_done, cmp_result>>

r_vars == <<r_pc, r_image, r_face_found, r_encoded, r_tolerance, r_analysis, r_db, r_scan, r_raised, r_response,
           r_user>>

codec_vars == <<codec_pc, codec_in, codec_blob, codec_out>>

g_vars == <<g_limit, g_value, g_waiters, g_pc, g_exit, g_released>>

st_vars == <<st_users, st_files, st_cache, st_next, st_deleted, st_req>>

ma_vars == <<ma_call, ma_done, ma_result>>

e_vars == <<e_rows, e_op>>

b_vars == <<b_users, b_cache, b_users_cache, b_body>>

d_vars == <<d_tolerance, d_results, d_count, d_last>>

k_vars == <<k_lock, k_threads>>

c_vars == <<c_op, c_conn, c_leaked>>

a_vars == <<a_call, a_result>>

l_vars == <<l_lock, l_threads, l_outcome>>

w_vars == <<w_waited>>

vars == <<cmp_vars, r_vars, codec_vars, g_vars, st_vars, ma_vars, e_vars, b_vars, d_vars, k_vars, c_vars, a_vars, l_vars, w_vars>>

\* The variables a specification does not drive
NotCmp == <<r_vars, codec_vars, g_vars, st_vars, ma_vars, e_vars, b_vars, d_vars, k_vars, c_vars, a_vars, l_vars, w_vars>>

NotRec == <<cmp_vars, codec_vars, g_vars, st_vars, ma_vars, e_vars, b_vars, d_vars, k_vars, c_vars, a_vars, l_vars, w_vars>>

NotCodec == <<cmp_vars, r_vars, g_vars, st_vars, ma_vars, e_vars, b_vars, d_vars, k_vars, c_vars, a_vars, l_vars, w_vars>>

NotGate == <<cmp_vars, r_vars, codec_vars, st_vars, ma_vars, e_vars, b_vars, d_vars, k_vars, c_vars, a_vars, l_vars, w_vars>>

NotStore == <<cmp_vars, r_vars, codec_vars, g_vars, ma_vars, e_vars, b_vars, d_vars, k_vars, c_vars, a_vars, l_vars, w_vars>>

NotMulti == <<cmp_vars, r_vars, codec_vars, g_vars, st_vars, e_vars, b_vars, d_vars, k_vars, c_vars, a_vars, l_vars, w_vars>>

NotEmb == <<cmp_vars, r_vars, codec_vars, g_vars, st_vars, ma_vars, b_vars, d_vars, k_vars, c_vars, a_vars, l_vars, w_vars>>

NotBody == <<cmp_vars, r_vars, codec_vars, g_vars, st_vars, ma_vars, e_vars, d_vars, k_vars, c_vars, a_vars, l_vars, w_vars>>

NotRepeat == <<cmp_vars, r_vars, codec_vars, g_vars, st_vars, ma_vars, e_vars, b_vars, k_vars, c_vars, a_vars, l_vars, w_vars>>

NotEngine == <<cmp_vars, r_vars, codec_vars, g_vars, st_vars, ma_vars, e_vars, b_vars, d_vars, c_vars, a_vars, l_vars, w_vars>>

NotConn == <<cmp_vars, r_vars, codec_vars, g_vars, st_vars, ma_vars, e_vars, b_vars, d_vars, k_vars, a_vars, l_vars, w_vars>>

NotAnalyze == <<cmp_vars, r_vars, codec_vars, g_vars, st_vars, ma_vars, e_vars, b_vars, d_vars, k_vars, c_vars, l_vars, w_vars>>

NotLock == <<cmp_vars, r_vars, codec_vars, g_vars, st_vars, ma_vars, e_vars, b_vars, d_vars, k_vars, c_vars, a_vars, w_vars>>

\* The variables the observed gate does not drive
NotGateFair == <<cmp_vars, r_vars, codec_vars, st_vars, ma_vars, e_vars, b_vars, d_vars, k_vars, c_vars, a_vars, l_vars>>

(***************************************************************************)
(* Configuration                                                           *)
(***************************************************************************)

\* config.FACE_RECOGNITION_TOLERANCE: float(os.environ.get(..., "0.6"))
FACE_RECOGNITION_TOLERANCE == Frac(6, 10)

\* The values the environment variable is given in the model: the default
\* and one above the pose-adjustment cap.
ConfiguredTolerances == {FACE_RECOGNITION_TOLERANCE, Frac(9, 10)}

\* min(0.8, ...) in FaceService.compare_faces
ToleranceCap == Frac(8, 10)

\* tolerance=0.55 default parameter of FaceRecognitionService.compare_faces
LegacyTolerance == Frac(55, 100)

\* min(..., 0.65) in FaceRecognitionService.compare_faces
ToleranceCapLegacy == Frac(65, 100)

(***************************************************************************)
(* Poses: a pose is a dict with a subset of the keys yaw, pitch, roll      *)
(* (the empty dict is what _estimate_pose returns on failure).             *)
(***************************************************************************)
PoseKeys == {"yaw", "pitch", "roll"}

\* keys: the keys present in the dict
EmptyPose == [keys |-> {}, yaw |-> 0, pitch |-> 0, roll |-> 0]

MkPose(y, p, r) == [keys |-> PoseKeys, yaw |-> y, pitch |-> p, roll |-> r]

\* dict.get(key, 0)
PoseGet(pose, key) == IF key \in pose.keys THEN pose[key] ELSE 0

\* poses=None, and a poses dict with both keys
NoPoses == [given |-> FALSE, known |-> EmptyPose, unknown |-> EmptyPose]

MkPoses(k, u) == [given |-> TRUE, known |-> k, unknown |-> u]

(***************************************************************************)
(* Embeddings are points of a one-dimensional embedding space, in model    *)
(* units; BadEmbedding is a value that is not a numeric vector (the        *)
(* distance primitive raises on it).                                       *)
(***************************************************************************)
Emb(x) == [valid |-> TRUE, at |-> x]

BadEmbedding == [valid |-> FALSE, at |-> 0]

\* face_recognition.face_distance([known], unknown)[0]: Euclidean distance
face_distance(known, unknown) == Abs(known.at - unknown.at)

Raises(known, unknown) == ~known.valid \/ ~unknown.valid

\* (yaw_diff / 90 + pitch_diff / 90 + roll_diff / 90) / 6, in model units
pose_adjustment(poses) ==
    LET yaw_diff == Abs(PoseGet(poses.known, "yaw") - PoseGet(poses.unknown, "yaw"))
        pitch_diff == Abs(PoseGet(poses.known, "pitch") - PoseGet(poses.unknown, "pitch"))
        roll_diff == Abs(PoseGet(poses.known, "roll") - PoseGet(poses.unknown, "roll"))
    IN ((yaw_diff + pitch_diff + roll_diff) * Scale) \div (90 * 6)

\* FaceService.compare_faces, lines 471-487
adjusted_tolerance(tolerance, poses) ==
    IF poses.given
    THEN Min(ToleranceCap, tolerance + pose_adjustment(poses))
    ELSE tolerance

is_match_strict(distance, adjusted) == distance < adjusted

\* match = distance <= adjusted_tolerance
is_match(distance, adjusted) == distance <= adjusted

\* FaceService.compare_faces(known_encoding, unknown_encoding, poses)
\* with self.tolerance = tolerance
compare_faces(tolerance, known, unknown, poses) ==
    IF Raises(known, unknown)
    THEN [match |-> FALSE, distance |-> One, adjusted_tolerance |-> tolerance]
    ELSE LET distance == face_distance(known, unknown)
             adjusted == adjusted_tolerance(tolerance, poses)
         IN [match |-> is_match(distance, adjusted),
             distance |-> distance,
             adjusted_tolerance |-> adjusted]

\* pose_diff_factor * POSE_TOLERANCE_ADJUSTMENT with
\* pose_diff_factor = (yaw_diff + pitch_diff) / 90.0, in model units
pose_adjustment_legacy(poses) ==
    LET yaw_diff == Abs(PoseGet(poses.known, "yaw") - PoseGet(poses.unknown, "yaw"))
        pitch_diff == Abs(PoseGet(poses.known, "pitch") - PoseGet(poses.unknown, "pitch"))
    IN ((yaw_diff + pitch_diff) * Scale) \div (90 * 10)

\* FaceRecognitionService.compare_faces, lines 516-528
adjusted_tolerance_legacy(tolerance, poses) ==
    IF poses.given
    THEN Min(tolerance + pose_adjustment_legacy(poses), ToleranceCapLegacy)
    ELSE tolerance

\* FaceRecognitionService.compare_faces(known, unknown, tolerance, poses)
compare_faces_legacy(tolerance, known, unknown, poses) ==
    IF Raises(known, unknown)
    THEN [match |-> FALSE, distance |-> One, adjusted_tolerance |-> tolerance]
    ELSE LET adjusted == adjusted_tolerance_legacy(tolerance, poses)
             distance == face_distance(known, unknown)
         IN [match |-> distance <= adjusted,
             distance |-> distance,
             adjusted_tolerance |-> adjusted]

(***************************************************************************)
(* Inputs of the comparison specification                                  *)
(***************************************************************************)
PoseAngles == {0 - 40, 0, 40}

Poses ==
    {MkPose(y, p, r) : y \in PoseAngles, p \in {0, 20}, r \in {0, 15}} \cup {EmptyPose}

PosePairs == {MkPoses(k, u) : k \in Poses, u \in Poses}

PosesArgs == PosePairs \cup {NoPoses}

\* Distances 0.0, 0.05, ..., 1.1, and the values at and next to the
\* tolerances widened by a pose divergence of 20 and of 40 degrees.
Distances ==
    {Frac(k, 20) : k \in 0..22}
    \cup {t + Frac(s, 540) + d : t \in ConfiguredTolerances, s \in {20, 40}, d \in {0 - 1, 0, 1}}
    \cup {LegacyTolerance + Frac(s, 900) + d : s \in {20, 40}, d \in {0 - 1, 0, 1}}

Embeddings == {Emb(d) : d \in Distances} \cup {BadEmbedding}

\* The query embedding sits at the origin of the embedding space.
QueryEmbedding == Emb(0)

NoResult == [match |-> FALSE, distance |-> 0, adjusted_tolerance |-> 0]

CompareCalls ==
    {[variant |-> "api", tolerance |-> t, known |-> k, unknown |-> QueryEmbedding, poses |-> p] :
        t \in ConfiguredTolerances, k \in Embeddings, p \in PosesArgs}
    \cup
    {[variant |-> "legacy", tolerance |-> LegacyTolerance, known |-> k,
      unknown |-> QueryEmbedding, poses |-> p] :
        k \in Embeddings, p \in PosesArgs}

NoCall ==
    [variant |-> "none", tolerance |-> 0, known |-> BadEmbedding, unknown |-> BadEmbedding,
     poses |-> NoPoses]

CmpIdle ==
    /\ cmp_call = NoCall
    /\ cmp_done = FALSE
    /\ cmp_result = NoResult

CmpInit ==
    /\ cmp_call \in CompareCalls
    /\ cmp_done = FALSE
    /\ cmp_result = NoResult

\* The call of FaceService.compare_faces
CompareFaces ==
    /\ ~cmp_done
    /\ cmp_call.variant = "api"
    /\ cmp_result' = compare_faces(cmp_call.tolerance, cmp_call.known, cmp_call.unknown,
                                   cmp_call.poses)
    /\ cmp_done' = TRUE
    /\ UNCHANGED <<cmp_call, NotCmp>>

\* The call of FaceRecognitionService.compare_faces
CompareFacesLegacy ==
    /\ ~cmp_done
    /\ cmp_call.variant = "legacy"
    /\ cmp_result' = compare_faces_legacy(cmp_call.tolerance, cmp_call.known, cmp_call.unknown,
                                          cmp_call.poses)
    /\ cmp_done' = TRUE
    /\ UNCHANGED <<cmp_call, NotCmp>>

CmpNext == CompareFaces \/ CompareFacesLegacy

Called == cmp_done

CallRaised == Called /\ Raises(cmp_call.known, cmp_call.unknown)

\* C2: every compare() call that computed a distance reports a match if and
\* only if the returned distance is at most the returned adjusted tolerance
\* (a distance equal to the adjusted tolerance is a match); a call that failed
\* reports no match.
C2_MatchIffWithinTolerance ==
    Called =>
        /\ cmp_result.match <=> (cmp_result.distance <= cmp_result.adjusted_tolerance)
        /\ ~CallRaised => cmp_result.distance = face_distance(cmp_call.known, cmp_call.unknown)

\* C2 witness: a call with poses whose distance equals the widened tolerance
\* exactly and is reported as a match.
C2_Witness ==
    /\ Called
    /\ cmp_call.poses.given
    /\ cmp_result.adjusted_tolerance > cmp_call.tolerance
    /\ cmp_result.distance = cmp_result.adjusted_tolerance
    /\ cmp_result.match

\* Componentwise order of pose divergence (yaw and pitch deltas) between two
\* pose arguments with the same roll delta.
YawDiff(p) == Abs(PoseGet(p.known, "yaw") - PoseGet(p.unknown, "yaw"))

PitchDiff(p) == Abs(PoseGet(p.known, "pitch") - PoseGet(p.unknown, "pitch"))

RollDiff(p) == Abs(PoseGet(p.known, "roll") - PoseGet(p.unknown, "roll"))

DivergesMore(p, q) ==
    /\ YawDiff(p) <= YawDiff(q)
    /\ PitchDiff(p) <= PitchDiff(q)
    /\ RollDiff(p) = RollDiff(q)

CapOf(variant) == IF variant = "api" THEN ToleranceCap ELSE ToleranceCapLegacy

CompareAs(call, poses) ==
    IF call.variant = "api"
    THEN compare_faces(call.tolerance, call.known, call.unknown, poses)
    ELSE compare_faces_legacy(call.tolerance, call.known, call.unknown, poses)

Monotone ==
    (Called /\ ~CallRaised /\ cmp_call.poses.given) =>
        \A q \in PosePairs :
            DivergesMore(cmp_call.poses, q) =>
                cmp_result.adjusted_tolerance <= CompareAs(cmp_call, q).adjusted_tolerance

\* C3: for a fixed base tolerance the adjusted tolerance never decreases when
\* the yaw or pitch difference grows, and for every input, with or without
\* poses and for every configured base tolerance, it never exceeds the cap.
C3_MonotoneAndCapped ==
    /\ Monotone
    /\ Called => cmp_result.adjusted_tolerance <= CapOf(cmp_call.variant)

(***************************************************************************)
(* Stored blobs as the recognition handler of the api stack reads them.    *)
(* Both stacks open the same database file (backend/data/                   *)
(* face_recognition.db), so a row may carry blobs written by either        *)
(* stack: FaceService pickles (fmt "pickle"), FaceRecognitionService       *)
(* writes raw float64 bytes and a length-prefixed concatenation (fmt       *)
(* "raw"), which pickle.loads rejects.                                     *)
(***************************************************************************)
PickledEncoding(e) == [fmt |-> "pickle", emb |-> e]

RawEncoding(e) == [fmt |-> "raw", emb |-> e]

NullMulti == [fmt |-> "null", embs |-> <<>>]

PickledMulti(es) == [fmt |-> "pickle", embs |-> es]

RawMulti(es) == [fmt |-> "raw", embs |-> es]

\* pickle.loads raises on a blob that is not a pickle stream
UnpickleRaises(blob) == blob.fmt # "pickle"

\* FaceService.decode_from_bytes: pickle.loads(encoding_bytes)
decode_from_bytes(blob) == blob.emb

\* FaceService.decode_multiple_from_bytes: pickle.loads(encodings_bytes)
decode_multiple_from_bytes(blob) == blob.embs

\* face_analysis column: NULL or "" ("none"), a JSON object without a pose
\* key ("nopose"), or a JSON object with a pose
NoStoredAnalysis == [kind |-> "none", pose |-> EmptyPose]

StoredAnalysisNoPose == [kind |-> "nopose", pose |-> EmptyPose]

StoredAnalysis(pose) == [kind |-> "pose", pose |-> pose]

\* A row of get_all_face_encodings
DbFace(id, enc, multi, analysis) ==
    [id |-> id, face_encoding |-> enc, multi_angle_encodings |-> multi, face_analysis |-> analysis]

(***************************************************************************)
(* FaceService.analyze_face result of the query image                      *)
(***************************************************************************)
\* FaceService._generate_pose_recommendations
generate_pose_recommendations(pose) ==
    IF pose.keys = {}
    THEN <<>>
    ELSE LET yaw == PoseGet(pose, "yaw")
             pitch == PoseGet(pose, "pitch")
             roll == PoseGet(pose, "roll")
             r1 == IF yaw < 0 - 15 THEN <<"Turn your face slightly to the right">>
                   ELSE IF yaw > 15 THEN <<"Turn your face slightly to the left">>
                   ELSE <<>>
             r2 == IF pitch < 0 - 15 THEN <<"Tilt your face slightly upward">>
                   ELSE IF pitch > 15 THEN <<"Tilt your face slightly downward">>
                   ELSE <<>>
             r3 == IF Abs(roll) > 10 THEN <<"Keep your head level (not tilted)">> ELSE <<>>
         IN r1 \o r2 \o r3

\* {} when no landmarks were found or an error was raised
EmptyAnalysis == [present |-> FALSE, pose |-> EmptyPose, pose_recommendation |-> <<>>]

\* {"pose": pose, "alignment_quality": ..., ["pose_recommendation": ...]}
Analysis(pose) ==
    [present |-> TRUE, pose |-> pose, pose_recommendation |-> generate_pose_recommendations(pose)]

(***************************************************************************)
(* The scan of recognize_face, lines 150-246                               *)
(***************************************************************************)
NoMatch ==
    [found |-> FALSE, user_id |-> 0, confidence |-> 0, adjusted_tolerance |-> 0,
     multi_angle_match |-> FALSE]

\* best_match = None, lowest_distance = 1.0, total_comparisons = 0,
\* used_poses = False
ScanStart ==
    [raised |-> FALSE, best_match |-> NoMatch, lowest_distance |-> One,
     total_comparisons |-> 0, used_poses |-> FALSE]

\* lines 170-181 and 211-222: poses are passed when the query analysis has a
\* pose and the stored face_analysis parses to an object with a pose key
scan_poses(face_analysis, db_face) ==
    IF face_analysis.present /\ db_face.face_analysis.kind = "pose"
    THEN MkPoses(db_face.face_analysis.pose, face_analysis.pose)
    ELSE NoPoses

is_better_or_equal(match_result, distance, lowest_distance) ==
    match_result /\ distance <= lowest_distance

\* if match_result and distance < lowest_distance
is_better(match_result, distance, lowest_distance) ==
    match_result /\ distance < lowest_distance

\* One comparison of the loop body (lines 170-205 and 211-246)
scan_compare(st, tolerance, face_analysis, face_encoding, db_face, db_encoding, multi) ==
    LET poses == scan_poses(face_analysis, db_face)
        res == compare_faces(tolerance, db_encoding, face_encoding, poses)
        better == is_better(res.match, res.distance, st.lowest_distance)
    IN [raised |-> FALSE,
        best_match |-> IF better
                       THEN [found |-> TRUE, user_id |-> db_face.id,
                             confidence |-> One - res.distance,
                             adjusted_tolerance |-> res.adjusted_tolerance,
                             multi_angle_match |-> multi]
                       ELSE st.best_match,
        lowest_distance |-> IF better THEN res.distance ELSE st.lowest_distance,
        total_comparisons |-> st.total_comparisons + 1,
        used_poses |-> st.used_poses \/ poses.given]

RECURSIVE scan_multi(_, _, _, _, _, _)
\* for db_encoding in multi_encodings (lines 168-205)
scan_multi(st, tolerance, face_analysis, face_encoding, db_face, encs) ==
    IF encs = <<>>
    THEN st
    ELSE scan_multi(scan_compare(st, tolerance, face_analysis, face_encoding, db_face,
                                 Head(encs), TRUE),
                    tolerance, face_analysis, face_encoding, db_face, Tail(encs))

\* lines 159-164: the decode of the multi-angle blob is guarded
guarded_multi_encodings(db_face) ==
    IF db_face.multi_angle_encodings.fmt = "null"
       \/ UnpickleRaises(db_face.multi_angle_encodings)
    THEN <<>>
    ELSE decode_multiple_from_bytes(db_face.multi_angle_encodings)

\* The body of "for db_face in db_face_encodings" (lines 156-246); the
\* decode of the primary blob at line 208 is not guarded and its exception
\* leaves the loop.
scan_face(st, tolerance, face_analysis, face_encoding, db_face) ==
    LET multi_encodings == guarded_multi_encodings(db_face)
    IN IF multi_encodings # <<>>
       THEN scan_multi(st, tolerance, face_analysis, face_encoding, db_face, multi_encodings)
       ELSE IF UnpickleRaises(db_face.face_encoding)
            THEN [st EXCEPT !.raised = TRUE]
            ELSE scan_compare(st, tolerance, face_analysis, face_encoding, db_face,
                              decode_from_bytes(db_face.face_encoding), FALSE)

RECURSIVE scan(_, _, _, _, _)
\* for db_face in db_face_encodings
scan(st, tolerance, face_analysis, face_encoding, db_face_encodings) ==
    IF db_face_encodings = <<>> \/ st.raised
    THEN st
    ELSE scan(scan_face(st, tolerance, face_analysis, face_encoding, Head(db_face_encodings)),
              tolerance, face_analysis, face_encoding, Tail(db_face_encodings))

(***************************************************************************)
(* Inputs of the recognition specification                                 *)
(***************************************************************************)
\* Largest number of rows get_all_face_encodings returns in the model
MaxCandidates == 3

StoredPose == MkPose(40, 0, 0)

\* Stored rows, without their id: single-encoding rows at several distances
\* from the query, with and without a stored pose; rows written by the
\* legacy stack; rows with a multi-angle blob; a row whose embedding is not
\* a vector of the embedding dimensionality; a row whose multi-angle blob
\* is unreadable; a row whose analysis has no pose.
StoredFaceKinds ==
    {[enc |-> PickledEncoding(Emb(d)), multi |-> NullMulti, analysis |-> NoStoredAnalysis] :
        d \in {Frac(2, 10), Frac(4, 10), Frac(5, 10), Frac(65, 100), One}}
    \cup {[enc |-> PickledEncoding(Emb(Frac(65, 100))), multi |-> NullMulti,
           analysis |-> StoredAnalysis(StoredPose)],
          [enc |-> RawEncoding(Emb(Frac(2, 10))), multi |-> NullMulti,
           analysis |-> NoStoredAnalysis],
          [enc |-> PickledEncoding(Emb(Frac(5, 10))),
           multi |-> PickledMulti(<<Emb(Frac(5, 10)), Emb(Frac(3, 10))>>),
           analysis |-> NoStoredAnalysis],
          [enc |-> PickledEncoding(Emb(Frac(5, 10))),
           multi |-> PickledMulti(<<Emb(One), Emb(Frac(65, 100))>>),
           analysis |-> StoredAnalysis(StoredPose)],
          [enc |-> PickledEncoding(BadEmbedding), multi |-> NullMulti,
           analysis |-> NoStoredAnalysis],
          [enc |-> PickledEncoding(Emb(Frac(4, 10))),
           multi |-> RawMulti(<<Emb(Frac(4, 10)), Emb(Frac(2, 10))>>),
           analysis |-> NoStoredAnalysis],
          [enc |-> PickledEncoding(Emb(Frac(65, 100))), multi |-> NullMulti,
           analysis |-> StoredAnalysisNoPose]}

\* Row i of a result carries the id i.
DbRows(kinds) ==
    [i \in 1..Len(kinds) |-> DbFace(i, kinds[i].enc, kinds[i].multi, kinds[i].analysis)]

\* {} (no landmarks), an analysis whose pose is the empty dict that
\* _estimate_pose returns on failure, and analyses with an estimated pose
QueryAnalyses ==
    {EmptyAnalysis, Analysis(EmptyPose), Analysis(MkPose(0, 0, 0)), Analysis(MkPose(0 - 40, 0, 0))}

(***************************************************************************)
(* recognize_face, one request (src/api/recognition.py)                    *)
(***************************************************************************)
NoResponse ==
    [status |-> 0, outcome |-> "pending", recognized |-> FALSE, possible_match |-> FALSE,
     user |-> 0, confidence |-> 0, diagnostic |-> {}, comparisons |-> 0,
     pose_recommendation |-> <<>>]

\* JSONResponse(status_code=..., content={"status": "error", ...})
ErrorResponse(status, outcome) ==
    [NoResponse EXCEPT !.status = status, !.outcome = outcome]

\* the 200 answers with "recognized": False
NotRecognized(outcome, diagnostic, comparisons, recommendation) ==
    [NoResponse EXCEPT !.status = 200, !.outcome = outcome, !.diagnostic = diagnostic,
                       !.comparisons = comparisons, !.pose_recommendation = recommendation]

\* the 200 answers with "recognized": True (lines 257-291)
Recognized(best_match, total_comparisons, face_analysis) ==
    IF best_match.confidence >= Frac(7, 10)
    THEN [NoResponse EXCEPT
            !.status = 200, !.outcome = "match", !.recognized = TRUE,
            !.user = best_match.user_id, !.confidence = best_match.confidence,
            !.diagnostic = {"comparisons", "match_quality", "used_pose_adjustment",
                            "used_multi_angle", "face_analysis"},
            !.comparisons = total_comparisons]
    ELSE [NoResponse EXCEPT
            !.status = 200, !.outcome = "possible_match", !.recognized = TRUE,
            !.possible_match = TRUE,
            !.user = best_match.user_id, !.confidence = best_match.confidence,
            !.diagnostic = {"comparisons", "match_quality", "used_pose_adjustment",
                            "used_multi_angle", "face_analysis", "pose_recommendation"},
            !.comparisons = total_comparisons,
            !.pose_recommendation = face_analysis.pose_recommendation]

RecIdle ==
    /\ r_pc = "idle"
    /\ r_image = "none"
    /\ r_face_found = FALSE
    /\ r_encoded = FALSE
    /\ r_tolerance = FACE_RECOGNITION_TOLERANCE
    /\ r_analysis = EmptyAnalysis
    /\ r_db = <<>>
    /\ r_scan = ScanStart
    /\ r_raised = FALSE
    /\ r_response = NoResponse
    /\ r_user = "unread"

RecInit ==
    /\ r_pc = "start"
    /\ r_image = "none"
    /\ r_face_found = FALSE
    /\ r_encoded = FALSE
    /\ r_tolerance \in ConfiguredTolerances
    /\ r_analysis = EmptyAnalysis
    /\ r_db = <<>>
    /\ r_scan = ScanStart
    /\ r_raised = FALSE
    /\ r_response = NoResponse
    /\ r_user = "unread"

Finish(response) ==
    /\ r_pc' = "done"
    /\ r_response' = response

\* lines 48-85: read the upload or the base64 body
ReadInput ==
    /\ r_pc = "start"
    /\ \E input \in {"image", "nothing", "read_error"} :
        \/ /\ input = "image"
           /\ r_pc' = "process_image"
           /\ UNCHANGED r_response
        \/ /\ input = "nothing"
           /\ Finish(ErrorResponse(400, "no_image"))
        \/ /\ input = "read_error"
           /\ Finish(ErrorResponse(400, "read_error"))
    /\ UNCHANGED <<r_image, r_face_found, r_encoded>>
    /\ UNCHANGED <<r_tolerance, r_analysis, r_db, r_scan, r_raised, r_user, NotRec>>

\* lines 91-99: face_service.process_image returns None for data that does
\* not decode
ProcessImage ==
    /\ r_pc = "process_image"
    /\ \E decodable \in BOOLEAN :
        IF decodable
        THEN r_image' = "ok" /\ r_pc' = "detect_faces" /\ UNCHANGED r_response
        ELSE r_image' = "undecodable" /\ Finish(ErrorResponse(400, "invalid_image"))
    /\ UNCHANGED <<r_face_found, r_encoded>>
    /\ UNCHANGED <<r_tolerance, r_analysis, r_db, r_scan, r_raised, r_user, NotRec>>

no_face_is_an_error ==
    ErrorResponse(400, "no_face")

\* lines 106-112
no_face_response ==
    NotRecognized("no_face", {"face_detected"}, 0, <<>>)

\* lines 102-115: face_service.detect_faces returns [] when it finds no face
\* or fails
DetectFaces ==
    /\ r_pc = "detect_faces"
    /\ \E n_faces \in 0..2 :
        IF n_faces = 0
        THEN r_face_found' = FALSE /\ Finish(no_face_response)
        ELSE r_face_found' = TRUE /\ r_pc' = "analyze_face" /\ UNCHANGED r_response
    /\ UNCHANGED <<r_image, r_encoded>>
    /\ UNCHANGED <<r_tolerance, r_analysis, r_db, r_scan, r_raised, r_user, NotRec>>

\* lines 118-120
AnalyzeFace ==
    /\ r_pc = "analyze_face"
    /\ \E face_analysis \in QueryAnalyses : r_analysis' = face_analysis
    /\ r_pc' = "encode_face"
    /\ UNCHANGED <<r_image, r_face_found, r_encoded>>
    /\ UNCHANGED <<r_tolerance, r_db, r_scan, r_raised, r_response, r_user, NotRec>>

\* lines 123-137: face_service.encode_face returns None when it fails
EncodeFace ==
    /\ r_pc = "encode_face"
    /\ \E encoded \in BOOLEAN :
        IF encoded
        THEN r_encoded' = TRUE /\ r_pc' = "get_all_face_encodings" /\ UNCHANGED r_response
        ELSE /\ r_encoded' = FALSE
             /\ Finish(NotRecognized("no_encoding",
                                     {"face_detected", "encoding_generated", "analysis"}, 0, <<>>))
    /\ UNCHANGED <<r_image, r_face_found>>
    /\ UNCHANGED <<r_tolerance, r_analysis, r_db, r_scan, r_raised, r_user, NotRec>>

\* lines 140-148; Database.get_all_face_encodings re-raises a store error,
\* which the handler's except clause turns into a 500
GetAllFaceEncodings ==
    /\ r_pc = "get_all_face_encodings"
    /\ \/ /\ \E kinds \in SeqsUpTo(StoredFaceKinds, MaxCandidates) :
                /\ r_db' = DbRows(kinds)
                /\ IF kinds = <<>>
                   THEN Finish(NotRecognized("no_registered_faces", {"registered_faces"}, 0, <<>>))
                   ELSE r_pc' = "scan" /\ UNCHANGED r_response
          /\ UNCHANGED r_raised
       \/ /\ r_raised' = TRUE
          /\ Finish(ErrorResponse(500, "exception"))
          /\ UNCHANGED r_db
    /\ UNCHANGED <<r_image, r_face_found, r_encoded>>
    /\ UNCHANGED <<r_tolerance, r_analysis, r_scan, r_user, NotRec>>

\* lines 150-246 and, when nothing matched, lines 292-304
Scan ==
    /\ r_pc = "scan"
    /\ LET st == scan(ScanStart, r_tolerance, r_analysis, QueryEmbedding, r_db)
       IN /\ r_scan' = st
          /\ r_raised' = st.raised
          /\ IF st.raised
             THEN Finish(ErrorResponse(500, "exception"))
             ELSE IF st.best_match.found
                  THEN r_pc' = "get_user_by_id" /\ UNCHANGED r_response
                  ELSE Finish(NotRecognized("no_match",
                                            {"face_detected", "encoding_generated", "comparisons",
                                             "face_analysis", "pose_recommendation"},
                                            st.total_comparisons,
                                            r_analysis.pose_recommendation))
    /\ UNCHANGED <<r_image, r_face_found, r_encoded>>
    /\ UNCHANGED <<r_tolerance, r_analysis, r_db, r_user, NotRec>>

\* lines 249-291: the full record is read again; Database.get_user_by_id
\* returns None when the row is gone, and "face_encoding" in None raises
Respond ==
    /\ r_pc = "get_user_by_id"
    /\ \E user_exists \in BOOLEAN :
        IF user_exists
        THEN /\ r_user' = "row"
             /\ Finish(Recognized(r_scan.best_match, r_scan.total_comparisons, r_analysis))
             /\ UNCHANGED r_raised
        ELSE /\ r_user' = "none"
             /\ r_raised' = TRUE
             /\ Finish(ErrorResponse(500, "exception"))
    /\ UNCHANGED <<r_image, r_face_found, r_encoded>>
    /\ UNCHANGED <<r_tolerance, r_analysis, r_db, r_scan, NotRec>>

RecNext ==
    \/ ReadInput
    \/ ProcessImage
    \/ DetectFaces
    \/ AnalyzeFace
    \/ EncodeFace
    \/ GetAllFaceEncodings
    \/ Scan
    \/ Respond

(***************************************************************************)
(* Embedding serialization of the legacy stack                             *)
(* (FaceRecognitionService.encode_multiple_to_bytes and                    *)
(* decode_multiple_from_bytes).  A vector is a sequence of float64 values; *)
(* a float64 is its sign, its 11-bit exponent and its 52-bit mantissa in   *)
(* three parts of 20, 16 and 16 bits; bytes are numbers in 0..255.         *)
(***************************************************************************)
\* Number of components of an embedding vector
EmbeddingDim == 128

\* Largest number of vectors in one multi-angle blob of the model
MaxVectors == 3

Float(s, e, m_hi, m_mid, m_lo) == [s |-> s, e |-> e, m_hi |-> m_hi, m_mid |-> m_mid, m_lo |-> m_lo]

\* 0.0, 1.0, a negative number with a dense mantissa, and the largest
\* finite value
FloatSamples ==
    {Float(0, 0, 0, 0, 0),
     Float(0, 1023, 0, 0, 0),
     Float(1, 1019, 629145, 39321, 39322),
     Float(0, 2046, 1048575, 65535, 65535)}

\* The eight bytes of a float64 in memory order (little-endian)
float_to_bytes(f) ==
    <<f.m_lo % 256,
      f.m_lo \div 256,
      f.m_mid % 256,
      f.m_mid \div 256,
      f.m_hi % 256,
      (f.m_hi \div 256) % 256,
      (f.e % 16) * 16 + f.m_hi \div 65536,
      f.s * 128 + f.e \div 16>>

bytes_to_float(b) ==
    Float(b[8] \div 128,
          (b[8] % 128) * 16 + b[7] \div 16,
          (b[7] % 16) * 65536 + b[6] * 256 + b[5],
          b[4] * 256 + b[3],
          b[2] * 256 + b[1])

\* ndarray.tobytes()
tobytes(encoding) ==
    [i \in 1..(8 * Len(encoding)) |-> float_to_bytes(encoding[((i - 1) \div 8) + 1])[((i - 1) % 8) + 1]]

\* np.frombuffer(buf, dtype=np.float64) raises when the size of the buffer
\* is not a multiple of the element size
frombuffer_raises(buf) == Len(buf) % 8 # 0

frombuffer(buf) ==
    [k \in 1..(Len(buf) \div 8) |-> bytes_to_float(SubSeq(buf, 8 * (k - 1) + 1, 8 * k))]

\* buf[a:b]
Slice(buf, a, b) == SubSeq(buf, a + 1, Min(b, Len(buf)))

\* n.to_bytes(4, byteorder='big')
to_bytes_big(n) ==
    <<(n \div 16777216) % 256, (n \div 65536) % 256, (n \div 256) % 256, n % 256>>

RECURSIVE int_from_bytes_little(_)
int_from_bytes_little(bs) ==
    IF bs = <<>> THEN 0 ELSE Head(bs) + 256 * int_from_bytes_little(Tail(bs))

RECURSIVE int_from_bytes_big(_)
\* int.from_bytes(bs, byteorder='big')
int_from_bytes_big(bs) ==
    IF bs = <<>> THEN 0 ELSE int_from_bytes_big(SubSeq(bs, 1, Len(bs) - 1)) * 256 + bs[Len(bs)]

RECURSIVE encode_loop(_, _)
\* for encoding in face_encodings: all_bytes += length_bytes + encoding_bytes
encode_loop(all_bytes, face_encodings) ==
    IF face_encodings = <<>>
    THEN all_bytes
    ELSE LET encoding_bytes == tobytes(Head(face_encodings))
             length_bytes == to_bytes_big(Len(encoding_bytes))
         IN encode_loop(all_bytes \o length_bytes \o encoding_bytes, Tail(face_encodings))

\* FaceRecognitionService.encode_multiple_to_bytes; None for an empty list
encode_multiple_to_bytes_legacy(face_encodings) ==
    IF face_encodings = <<>>
    THEN [is_none |-> TRUE, bytes |-> <<>>]
    ELSE [is_none |-> FALSE, bytes |-> encode_loop(<<>>, face_encodings)]

frame_length_little(buf, offset) == int_from_bytes_little(Slice(buf, offset, offset + 4))

\* length = int.from_bytes(multi_encodings_bytes[offset:offset+4], byteorder='big')
frame_length(buf, offset) == int_from_bytes_big(Slice(buf, offset, offset + 4))

RECURSIVE decode_loop(_, _, _)
\* while offset < len(multi_encodings_bytes)
decode_loop(buf, offset, encodings) ==
    IF ~(offset < Len(buf))
    THEN [raised |-> FALSE, encodings |-> encodings, offset |-> offset]
    ELSE LET length == frame_length(buf, offset)
             encoding_bytes == Slice(buf, offset + 4, offset + 4 + length)
         IN IF frombuffer_raises(encoding_bytes)
            THEN [raised |-> TRUE, encodings |-> encodings, offset |-> offset + 4]
            ELSE decode_loop(buf, offset + 4 + length,
                             Append(encodings, frombuffer(encoding_bytes)))

\* FaceRecognitionService.decode_multiple_from_bytes
decode_multiple_from_bytes_legacy(multi_encodings_bytes) ==
    decode_loop(multi_encodings_bytes, 0, <<>>)

\* Vectors of the embedding dimensionality: constant ones and one that
\* cycles through the samples
CycleVector ==
    [i \in 1..EmbeddingDim |->
        CASE i % 4 = 0 -> Float(0, 0, 0, 0, 0)
          [] i % 4 = 1 -> Float(0, 1023, 0, 0, 0)
          [] i % 4 = 2 -> Float(1, 1019, 629145, 39321, 39322)
          [] OTHER -> Float(0, 2046, 1048575, 65535, 65535)]

Vectors == {[i \in 1..EmbeddingDim |-> f] : f \in FloatSamples} \cup {CycleVector}

NoDecoded == [raised |-> FALSE, encodings |-> <<>>, offset |-> 0]

CodecIdle ==
    /\ codec_pc = "idle"
    /\ codec_in = <<>>
    /\ codec_blob = <<>>
    /\ codec_out = NoDecoded

CodecInit ==
    /\ codec_pc = "encode"
    /\ codec_in \in (SeqsUpTo(Vectors, MaxVectors) \ {<<>>})
    /\ codec_blob = <<>>
    /\ codec_out = NoDecoded

\* The registration stores the blob (routes/registration.py, line 201)
EncodeMultiple ==
    /\ codec_pc = "encode"
    /\ codec_blob' = encode_multiple_to_bytes_legacy(codec_in).bytes
    /\ codec_pc' = "decode"
    /\ UNCHANGED <<codec_in, codec_out, NotCodec>>

\* A reader decodes the stored blob
DecodeMultiple ==
    /\ codec_pc = "decode"
    /\ codec_out' = decode_multiple_from_bytes_legacy(codec_blob)
    /\ codec_pc' = "done"
    /\ UNCHANGED <<codec_in, codec_blob, NotCodec>>

CodecNext == EncodeMultiple \/ DecodeMultiple

Scanned == r_db # <<>> /\ r_pc \in {"get_user_by_id", "done"}

\* The comparison set of a stored identity: its multi-angle embeddings if
\* they are present and readable, else its primary embedding.
ComparisonSet(db_face) ==
    IF db_face.multi_angle_encodings.fmt = "pickle" /\ db_face.multi_angle_encodings.embs # <<>>
    THEN db_face.multi_angle_encodings.embs
    ELSE <<db_face.face_encoding.emb>>

RECURSIVE AllComparisons(_)
\* Every (identity, embedding) pair of the candidate set, in scan order
AllComparisons(db) ==
    IF db = <<>>
    THEN <<>>
    ELSE [i \in 1..Len(ComparisonSet(Head(db))) |->
            [db_face |-> Head(db), emb |-> ComparisonSet(Head(db))[i]]]
         \o AllComparisons(Tail(db))

DistanceOf(c) == face_distance(c.emb, QueryEmbedding)

\* The pair is within its adjusted tolerance.
WithinTolerance(c) ==
    /\ c.emb.valid
    /\ DistanceOf(c) <= adjusted_tolerance(r_tolerance, scan_poses(r_analysis, c.db_face))

PlainFace(d) ==
    [enc |-> PickledEncoding(Emb(d)), multi |-> NullMulti, analysis |-> NoStoredAnalysis]

BadCandidate(db_face) ==
    \/ /\ ComparisonSet(db_face) = <<db_face.face_encoding.emb>>
       /\ UnpickleRaises(db_face.face_encoding)
    \/ \E i \in 1..Len(ComparisonSet(db_face)) : ~ComparisonSet(db_face)[i].valid

\* C4: an error while processing one stored candidate counts as a non-match
\* of that comparison only; the scan goes on over all remaining candidates
\* (every pair of the candidate set is counted as compared) and the request
\* does not end in an error response because of it.
C4_BadCandidateIsNonMatch ==
    Scanned =>
        /\ ~r_scan.raised
        /\ r_scan.total_comparisons = Len(AllComparisons(r_db))
        /\ (r_pc = "done" /\ r_response.status = 500) => r_scan.best_match.found

\* The distance error path alone: a candidate whose distance computation
\* fails is counted as a compared non-match and the scan goes on.
C4_DistanceErrorIsNonMatch ==
    (Scanned /\ \A i \in 1..Len(r_db) : ~UnpickleRaises(r_db[i].face_encoding)) =>
        /\ ~r_scan.raised
        /\ r_scan.total_comparisons = Len(AllComparisons(r_db))

(***************************************************************************)
(* Properties of the recognition response                                  *)
(***************************************************************************)
Answered == r_pc = "done"

\* The request ended without a match although its image decoded.
NonMatchingOutcome ==
    /\ Answered
    /\ r_image = "ok"
    /\ ~r_raised
    /\ \/ ~r_face_found
       \/ ~r_encoded
       \/ r_db = <<>>
       \/ ~r_scan.best_match.found

\* C6: a request with a decodable image that ends without a match (no face,
\* no encoding, no registered faces, no candidate within tolerance) is
\* answered 200 with recognized = false and a diagnostic block; a 4xx or 5xx
\* answer is given only for missing or undecodable input or an exception.
C6_NoMatchIsSuccess ==
    /\ NonMatchingOutcome =>
        /\ r_response.status = 200
        /\ ~r_response.recognized
        /\ r_response.diagnostic # {}
    /\ (Answered /\ r_response.status # 200) =>
        \/ r_response.status = 400 /\ r_image # "ok"
        \/ r_response.status = 500 /\ r_raised

\* C6 witness: a face was found and encoded, candidates were compared, none
\* was within tolerance, and the answer is 200 / not recognized.
C6_Witness ==
    /\ NonMatchingOutcome
    /\ r_face_found /\ r_encoded
    /\ r_scan.total_comparisons > 0
    /\ r_response.status = 200
    /\ "comparisons" \in r_response.diagnostic

(***************************************************************************)
(* The concurrency gate of recognize_face: the pipeline runs inside        *)
(* "async with recognition_semaphore"                                      *)
(***************************************************************************)
\* Number of concurrent requests of the model
NumRequests == 6

Requests == 1..NumRequests

\* The default of config.MAX_CONCURRENT_RECOGNITIONS
MAX_CONCURRENT_RECOGNITIONS == 5

\* Values the environment variable may give the limit
ConfiguredLimits == {1, 2, MAX_CONCURRENT_RECOGNITIONS}

semaphore_value_one_more(limit) == limit + 1

\* asyncio.Semaphore(config.MAX_CONCURRENT_RECOGNITIONS)
semaphore_value(limit) == limit

\* Semaphore.locked(): no permit left, or somebody is already waiting
locked == g_value = 0 \/ g_waiters # <<>>

GateIdle ==
    /\ g_limit = 0
    /\ g_value = 0
    /\ g_waiters = <<>>
    /\ g_pc = [q \in Requests |-> "idle"]
    /\ g_exit = [q \in Requests |-> "none"]
    /\ g_released = [q \in Requests |-> 0]

GateInit ==
    /\ g_limit \in ConfiguredLimits
    /\ g_value = semaphore_value(g_limit)
    /\ g_waiters = <<>>
    /\ g_pc = [q \in Requests |-> "start"]
    /\ g_exit = [q \in Requests |-> "none"]
    /\ g_released = [q \in Requests |-> 0]

\* No image in the request: answered 400 before the gate is reached
RejectNoImage(q) ==
    /\ g_pc[q] = "start"
    /\ g_pc' = [g_pc EXCEPT ![q] = "rejected"]
    /\ UNCHANGED <<g_limit, g_value, g_waiters, g_exit, g_released, NotGate>>

\* __aenter__ with a free permit
Acquire(q) ==
    /\ g_pc[q] = "start"
    /\ ~locked
    /\ g_value' = g_value - 1
    /\ g_pc' = [g_pc EXCEPT ![q] = "inside"]
    /\ UNCHANGED <<g_limit, g_waiters, g_exit, g_released, NotGate>>

\* __aenter__ without a free permit: the request queues up
Wait(q) ==
    /\ g_pc[q] = "start"
    /\ locked
    /\ g_waiters' = Append(g_waiters, q)
    /\ g_pc' = [g_pc EXCEPT ![q] = "waiting"]
    /\ UNCHANGED <<g_limit, g_value, g_exit, g_released, NotGate>>

\* The ways out of the gated section: a return of an answer (lines 249-304),
\* the early return of the 400 for an undecodable image (lines 95-99), and
\* an exception caught by the except clause inside the section (lines
\* 305-313)
ExitPaths == {"return", "invalid_image", "exception"}

released_on_return_only(exit) == exit = "return"

\* "async with recognition_semaphore": __aexit__ runs, and releases the
\* permit, on every way out of the block
released_by_aexit(exit) == exit \in ExitPaths

wake_up_next_of_many(waiters) == IF Len(waiters) > 1 THEN Head(waiters) ELSE 0

\* Semaphore.release -> _wake_up_next: the first waiter is woken, if there
\* is one (0: nobody waits)
wake_up_next(waiters) == IF waiters # <<>> THEN Head(waiters) ELSE 0

\* __aexit__, by a return or by an exception of the pipeline (the try block
\* is inside the gate): the permit goes to the first waiter, or back to the
\* semaphore
LeaveGate(q) ==
    /\ g_pc[q] = "inside"
    /\ \E exit \in ExitPaths :
        /\ g_exit' = [g_exit EXCEPT ![q] = exit]
        /\ IF ~released_by_aexit(exit)
           THEN /\ g_pc' = [g_pc EXCEPT ![q] = "done"]
                /\ UNCHANGED <<g_waiters, g_value, g_released>>
           ELSE /\ g_released' = [g_released EXCEPT ![q] = @ + 1]
                /\ IF wake_up_next(g_waiters) # 0
                   THEN /\ g_pc' = [g_pc EXCEPT ![q] = "done",
                                               ![wake_up_next(g_waiters)] = "inside"]
                        /\ g_waiters' = Tail(g_waiters)
                        /\ g_value' = g_value
                   ELSE /\ g_pc' = [g_pc EXCEPT ![q] = "done"]
                        /\ g_waiters' = g_waiters
                        /\ g_value' = g_value + 1
    /\ UNCHANGED g_limit

\* The same, seen from the specifications that do not observe the wake-ups
Leave(q) == LeaveGate(q) /\ UNCHANGED NotGate

GateNext == \E q \in Requests : RejectNoImage(q) \/ Acquire(q) \/ Wait(q) \/ Leave(q)

InGate == {q \in Requests : g_pc[q] = "inside"}

\* C7: at any time at most MAX_CONCURRENT_RECOGNITIONS requests (the
\* configured limit, 5 by default) are inside the gated section.
C7_AtMostLimitInGate ==
    (g_pc # [q \in Requests |-> "idle"]) => Cardinality(InGate) <= g_limit

\* C7 witness: with the default limit, five requests are inside the gate and
\* a sixth waits for a permit.
C7_Witness ==
    /\ g_limit = MAX_CONCURRENT_RECOGNITIONS
    /\ Cardinality(InGate) = MAX_CONCURRENT_RECOGNITIONS
    /\ g_waiters # <<>>

(***************************************************************************)
(* Registration, deletion and lookup of identities.  The api stack         *)
(* (src/api) and the legacy stack (routes) use the same users table.       *)
(***************************************************************************)
\* Number of identifiers the model hands out
MaxUsers == 2

UserIds == 1..MaxUsers

\* Depth at which the interpreter raises RecursionError, in the model
RecursionLimit == 3

NoFile == [kind |-> "none", n |-> 0]

\* config.UPLOADS_DIR / "{user_id}.jpg"
UploadsUserFile(user_id) == [kind |-> "user_id", n |-> user_id]

\* uploads/{timestamp}_{face_id}.jpg
UploadsFaceFile(face_id) == [kind |-> "face_id", n |-> face_id]

UserRow(id, stack, image_path) == [id |-> id, stack |-> stack, image_path |-> image_path]

HasRow(id) == \E row \in st_users : row.id = id

RowOf(id) == CHOOSE row \in st_users : row.id = id

\* What the environment does to a registration: nothing, every encoding
\* fails, the image file cannot be written, the insert fails, or the insert
\* fails once and succeeds when retried
RegFaults == {"none", "encode", "save", "db", "db_once"}

RegAnalyses ==
    {EmptyAnalysis, Analysis(EmptyPose)} \cup
    {Analysis(MkPose(y, 0, 0)) : y \in {0, 16, 40, 0 - 40, 61}} \cup
    {Analysis(MkPose(0, 0, 31))}

RegInput(kind, faces, analysis, bypass, fault) ==
    [kind |-> kind, faces |-> faces, analysis |-> analysis,
     bypass_angle_check |-> bypass, fault |-> fault]

NoInput == RegInput("none", 0, EmptyAnalysis, FALSE, "none")

\* kind: the name is missing, the image is missing, the image does not
\* decode, or both are usable; faces: the number of faces detect_faces finds
RegInputs ==
    {RegInput(k, 1, EmptyAnalysis, FALSE, "none") : k \in {"no_name", "no_image", "bad_image"}}
    \cup {RegInput("ok", f, a, b, "none") : f \in 0..2, a \in RegAnalyses, b \in BOOLEAN}
    \cup {RegInput("ok", 1, EmptyAnalysis, FALSE, x) : x \in RegFaults}

\* The outcome of a registration handler: the answer, whether a row was
\* inserted and with which image_path, and the file it left on disk
RegOutcome(status, error, wrapped, created, image_path, file) ==
    [status |-> status, error |-> error, wrapped |-> wrapped, created |-> created,
     image_path |-> image_path, file |-> file]

Rejected(status, error) == RegOutcome(status, error, FALSE, FALSE, NoFile, NoFile)

\* An HTTPException(400) raised inside the handler's try block is caught by
\* its "except Exception" and raised again as a 500 that quotes the message
Wrapped(error) == RegOutcome(500, error, TRUE, FALSE, NoFile, NoFile)

\* src/api/registration.py: yaw > 15 or pitch > 15 or roll > 15
angle_not_optimal(analysis) ==
    /\ analysis.present
    /\ \/ Abs(PoseGet(analysis.pose, "yaw")) > 15
       \/ Abs(PoseGet(analysis.pose, "pitch")) > 15
       \/ Abs(PoseGet(analysis.pose, "roll")) > 15

\* routes/registration.py: yaw > 60 or pitch > 45 or roll > 30
angle_not_optimal_legacy(analysis) ==
    /\ analysis.present
    /\ \/ Abs(PoseGet(analysis.pose, "yaw")) > 60
       \/ Abs(PoseGet(analysis.pose, "pitch")) > 45
       \/ Abs(PoseGet(analysis.pose, "roll")) > 30

\* register_face of src/api/registration.py; user_id is the fresh uuid
register_face(in, user_id) ==
    IF in.kind = "no_name" THEN Rejected(400, "name")
    ELSE IF in.kind = "no_image" THEN Rejected(400, "image")
    ELSE IF in.kind = "bad_image" THEN Rejected(400, "invalid_image")
    ELSE IF in.faces = 0 THEN Rejected(400, "no_face")
    \* face_location = face_locations[0], however many faces there are
    ELSE IF ~in.bypass_angle_check /\ angle_not_optimal(in.analysis)
    THEN Rejected(400, "angle")
    ELSE IF in.fault = "encode" THEN Rejected(400, "encoding")
    ELSE LET image_path == IF in.fault = "save" THEN NoFile ELSE UploadsUserFile(user_id)
         IN IF in.fault \in {"db", "db_once"}
            THEN RegOutcome(500, "exception", FALSE, FALSE, NoFile, image_path)
            ELSE RegOutcome(200, "none", FALSE, TRUE, image_path, image_path)

\* register_face and register_with_file of routes/registration.py, which
\* differ in the retry of a failed insert; face_id is the fresh uuid
register_face_legacy(in, face_id, retry_insert) ==
    IF in.kind = "no_name" THEN Rejected(400, "name")
    ELSE IF in.kind = "no_image" THEN Rejected(400, "image")
    ELSE IF in.kind = "bad_image" THEN Wrapped("invalid_image")
    ELSE IF in.faces = 0 THEN Wrapped("no_face")
    ELSE IF in.faces > 1 THEN Wrapped("multi_face")
    ELSE IF angle_not_optimal_legacy(in.analysis) /\ ~in.bypass_angle_check
    THEN Rejected(400, "angle")
    ELSE IF in.fault = "encode" THEN Wrapped("encoding")
    ELSE IF in.fault = "save" THEN Rejected(500, "exception")
    ELSE IF in.fault = "db" \/ (in.fault = "db_once" /\ ~retry_insert)
    THEN RegOutcome(500, "exception", FALSE, FALSE, NoFile, UploadsFaceFile(face_id))
    ELSE RegOutcome(200, "none", FALSE, TRUE, UploadsFaceFile(face_id), UploadsFaceFile(face_id))

\* The last request: op is "register", "delete" or "get_user"
\* (status is the HTTP status of a handler; returned is the value of a call
\* of DatabaseService.delete_user, which is no handler)
Request(op, stack, user_id, in, status, error, wrapped, created, returned) ==
    [op |-> op, stack |-> stack, user_id |-> user_id, input |-> in, status |-> status,
     error |-> error, wrapped |-> wrapped, created |-> created, returned |-> returned]

NoRequest == Request("none", "none", 0, NoInput, 0, "none", FALSE, FALSE, FALSE)

StoreIdle ==
    /\ st_users = {}
    /\ st_files = {}
    /\ st_cache = {}
    /\ st_next = 0
    /\ st_deleted = {}
    /\ st_req = NoRequest

StoreInit ==
    /\ st_users = {}
    /\ st_files = {}
    /\ st_cache = {}
    /\ st_next = 1
    /\ st_deleted = {}
    /\ st_req = NoRequest

\* The store after a registration handler ran
Registered(stack, in, out) ==
    /\ st_users' = IF out.created
                   THEN st_users \cup {UserRow(st_next, stack, out.image_path)}
                   ELSE st_users
    /\ st_files' = IF out.file # NoFile THEN st_files \cup {out.file} ELSE st_files
    /\ st_next' = IF out.created \/ out.file # NoFile THEN st_next + 1 ELSE st_next
    /\ st_req' = Request("register", stack, IF out.created THEN st_next ELSE 0, in,
                         out.status, out.error, out.wrapped, out.created, FALSE)
    /\ UNCHANGED <<st_cache, st_deleted, NotStore>>

\* POST /api/register of the api stack
RegisterApi ==
    /\ st_next <= MaxUsers
    /\ \E in \in RegInputs : Registered("api", in, register_face(in, st_next))

\* POST /api/register of the legacy stack
RegisterLegacy ==
    /\ st_next <= MaxUsers
    /\ \E in \in RegInputs : Registered("legacy", in, register_face_legacy(in, st_next, FALSE))

\* POST /api/register_with_file of the legacy stack
RegisterWithFile ==
    /\ st_next <= MaxUsers
    /\ \E in \in RegInputs : Registered("legacy_file", in, register_face_legacy(in, st_next, TRUE))

\* Faults of a deletion: none, os.remove raises, the database raises
DeleteFaults == {"none", "remove", "db"}

\* DELETE /api/users/{user_id} of the api stack
DeleteApi ==
    \E user_id \in UserIds, fault \in DeleteFaults :
        /\ IF fault = "db"
           THEN /\ st_req' = Request("delete", "api", user_id, NoInput, 500, "exception", FALSE, FALSE, FALSE)
                /\ UNCHANGED <<st_users, st_files, st_deleted>>
           ELSE IF ~HasRow(user_id)
           THEN /\ st_req' = Request("delete", "api", user_id, NoInput, 404, "not_found", FALSE, FALSE, FALSE)
                /\ UNCHANGED <<st_users, st_files, st_deleted>>
           ELSE /\ st_users' = st_users \ {RowOf(user_id)}
                \* a failure of os.remove is logged and the answer stays a success
                /\ st_files' = IF fault = "remove"
                               THEN st_files
                               ELSE st_files \ {UploadsUserFile(user_id)}
                /\ st_deleted' = st_deleted \cup {RowOf(user_id)}
                /\ st_req' = Request("delete", "api", user_id, NoInput, 200, "none", FALSE, FALSE, FALSE)
        /\ UNCHANGED <<st_cache, st_next, NotStore>>

\* DatabaseService.delete_user of the legacy stack
DeleteLegacy ==
    \E user_id \in UserIds, fault \in DeleteFaults \ {"db"} :
        /\ st_files' = IF HasRow(user_id) /\ fault # "remove"
                       THEN st_files \ {RowOf(user_id).image_path}
                       ELSE st_files
        /\ st_users' = {row \in st_users : row.id # user_id}
        /\ st_deleted' = IF HasRow(user_id) THEN st_deleted \cup {RowOf(user_id)} ELSE st_deleted
        /\ st_req' = Request("delete", "legacy", user_id, NoInput, 0, "none", FALSE, FALSE, HasRow(user_id))
        /\ UNCHANGED <<st_cache, st_next, NotStore>>

\* GET /api/users/{user_id} of the api stack
GetUserApi ==
    \E user_id \in UserIds :
        /\ st_req' = IF HasRow(user_id)
                     THEN Request("get_user", "api", user_id, NoInput, 200, "none", FALSE, FALSE, FALSE)
                     ELSE Request("get_user", "api", user_id, NoInput, 404, "not_found", FALSE, FALSE, FALSE)
        /\ UNCHANGED <<st_users, st_files, st_cache, st_next, st_deleted, NotStore>>

RECURSIVE get_user_by_id_legacy(_, _, _)
\* get_user_by_id of routes/users.py.  The handler has the name of the
\* database function it imports, so its call at line 88 enters the handler
\* again; the RecursionError at the bottom is caught by "except Exception",
\* which returns an error body, and every frame above wraps what it got as
\* a found user and caches it.  The answer is a 200 in every case.
get_user_by_id_legacy(user_id, cache, depth) ==
    IF user_id \in cache
    THEN [status |-> "success", nested |-> 0, cached |-> TRUE, stored |-> FALSE]
    ELSE IF depth >= RecursionLimit
    THEN [status |-> "error", nested |-> 0, cached |-> FALSE, stored |-> FALSE]
    ELSE LET user == get_user_by_id_legacy(user_id, cache, depth + 1)
         IN [status |-> "success", nested |-> user.nested + 1, cached |-> FALSE, stored |-> TRUE]

\* GET /api/users/{user_id} of the legacy stack
GetUserLegacy ==
    \E user_id \in UserIds :
        LET result == get_user_by_id_legacy(user_id, st_cache, 1)
        IN /\ st_cache' = IF result.stored THEN st_cache \cup {user_id} ELSE st_cache
           /\ st_req' = Request("get_user", "legacy", user_id, NoInput, 200,
                                IF result.status = "success" THEN "none" ELSE "exception",
                                FALSE, FALSE, FALSE)
           /\ UNCHANGED <<st_users, st_files, st_next, st_deleted, NotStore>>

\* config.CACHE_EXPIRY seconds after it was stored, a cache entry is no
\* longer served
ExpireCache ==
    \E user_id \in st_cache :
        /\ st_cache' = st_cache \ {user_id}
        /\ UNCHANGED <<st_users, st_files, st_next, st_deleted, st_req, NotStore>>

StoreNext ==
    \/ RegisterApi
    \/ RegisterLegacy
    \/ RegisterWithFile
    \/ DeleteApi
    \/ DeleteLegacy
    \/ GetUserApi
    \/ GetUserLegacy
    \/ ExpireCache

(***************************************************************************)
(* Properties of registration and deletion                                 *)
(***************************************************************************)
\* A registration whose name and image are usable
UsableRegistration == st_req.op = "register" /\ st_req.input.kind = "ok"

\* C8: a registration whose image holds no face is rejected with the
\* no-face error, one whose image holds two or more faces is rejected with
\* the multi-face error, and neither creates an identity record.
C8_FaceCountRejected ==
    UsableRegistration =>
        /\ st_req.input.faces = 0 => (st_req.error = "no_face" /\ ~st_req.created)
        /\ st_req.input.faces >= 2 => (st_req.error = "multi_face" /\ ~st_req.created)

\* The same for the two handlers of routes/registration.py alone.
C8_LegacyFaceCountRejected ==
    (UsableRegistration /\ st_req.stack # "api") =>
        /\ st_req.input.faces = 0 => (st_req.error = "no_face" /\ ~st_req.created)
        /\ st_req.input.faces >= 2 => (st_req.error = "multi_face" /\ ~st_req.created)

\* One face at a yaw of 40 degrees, and nothing fails
Yaw40Registration ==
    /\ UsableRegistration
    /\ st_req.input.faces = 1
    /\ st_req.input.analysis = Analysis(MkPose(40, 0, 0))
    /\ st_req.input.fault = "none"

\* C9: a registration of a face at a yaw of 40 degrees is rejected with the
\* angle error and creates no record when bypass_angle_check is false, and
\* creates a retrievable record when it is true.
C9_AngleGateAndBypass ==
    Yaw40Registration =>
        IF st_req.input.bypass_angle_check
        THEN st_req.created /\ HasRow(st_req.user_id)
        ELSE st_req.error = "angle" /\ ~st_req.created

\* The same for register_face of src/api/registration.py alone.
C9_ApiAngleGateAndBypass ==
    (Yaw40Registration /\ st_req.stack = "api") =>
        IF st_req.input.bypass_angle_check
        THEN st_req.created /\ HasRow(st_req.user_id)
        ELSE st_req.error = "angle" /\ ~st_req.created

\* The pose gate of the handler that served the request
OutsidePoseBounds(req) ==
    IF req.stack = "api" THEN angle_not_optimal(req.input.analysis)
    ELSE angle_not_optimal_legacy(req.input.analysis)

\* The inputs C15 lists: an empty name or image, no face, more than one
\* face, or a pose outside the bounds while the bypass is off
InvalidRegistration(req) ==
    \/ req.input.kind \in {"no_name", "no_image"}
    \/ /\ req.input.kind = "ok"
       /\ \/ req.input.faces = 0
          \/ req.input.faces >= 2
          \/ ~req.input.bypass_angle_check /\ OutsidePoseBounds(req)

\* C15: both registration endpoints answer 400, never 500, when the name or
\* image is missing or empty, when no face is detected, when more than one
\* face is detected, or when the pose is outside the bounds and the bypass
\* is off; a successful registration answers 200 with the created record.
C15_InvalidInputAnswers400 ==
    st_req.op = "register" =>
        /\ InvalidRegistration(st_req) => st_req.status = 400
        /\ st_req.status = 200 => (st_req.created /\ HasRow(st_req.user_id))

\* The part of C15 the code keeps: an empty name or image and a pose outside
\* the handler's bounds answer 400 in both stacks, and a 200 comes with the
\* created record.
C15_FieldAndPoseChecksAnswer400 ==
    st_req.op = "register" =>
        /\ st_req.input.kind \in {"no_name", "no_image"} => st_req.status = 400
        /\ (st_req.input.kind = "ok" /\ st_req.input.faces = 1
              /\ ~st_req.input.bypass_angle_check /\ OutsidePoseBounds(st_req))
            => st_req.status = 400
        /\ st_req.status = 200 => (st_req.created /\ HasRow(st_req.user_id))

\* C10: after a deletion that was reported successful the record is gone,
\* the image file stored for it is gone, and a later lookup by its
\* identifier is answered not-found.
C10_DeletionCascades ==
    /\ \A row \in st_deleted :
          /\ ~HasRow(row.id)
          /\ row.image_path # NoFile => row.image_path \notin st_files
    /\ (st_req.op = "get_user" /\ \E row \in st_deleted : row.id = st_req.user_id)
          => st_req.status = 404

\* The part of it that holds: the record is gone, and the lookup of the api
\* stack answers not-found.
C10_RecordGone ==
    /\ \A row \in st_deleted : ~HasRow(row.id)
    /\ (st_req.op = "get_user" /\ st_req.stack = "api"
            /\ \E row \in st_deleted : row.id = st_req.user_id)
          => st_req.status = 404

(***************************************************************************)
(* Multi-angle encoding                                                    *)
(***************************************************************************)
\* config.MULTI_ANGLE_JITTER: int(os.environ.get("MULTI_ANGLE_JITTER", "10"))
MULTI_ANGLE_JITTER == 10

\* range(start, stop, step) for a positive step
RECURSIVE range(_, _, _)
range(start, stop, step) ==
    IF start >= stop THEN <<>> ELSE <<start>> \o range(start + step, stop, step)

\* One perturbed variant: what is done to the face image before encoding
Variant(kind, param) == [kind |-> kind, param |-> param]

\* The embedding of the unperturbed face
BaseVariant == Variant("base", 0)

\* generate_multi_angle_encodings: rotations by every multiple of 5 degrees in
\* -jitter..jitter except 0, then the scales 0.95, 0.98, 1.02, 1.05 (percent)
api_variants ==
    [i \in 1..Len(SelectSeq(range(-MULTI_ANGLE_JITTER, MULTI_ANGLE_JITTER + 1, 5), LAMBDA a : a # 0))
        |-> Variant("rotate", SelectSeq(range(-MULTI_ANGLE_JITTER, MULTI_ANGLE_JITTER + 1, 5), LAMBDA a : a # 0)[i])]
    \o <<Variant("scale", 95), Variant("scale", 98), Variant("scale", 102), Variant("scale", 105)>>

\* encode_face_multi_angle: left (rotate 5), right (rotate -5), up, down
legacy_variants ==
    <<Variant("rotate", 5), Variant("rotate", -5), Variant("tilt", 1), Variant("tilt", -1)>>

\* What producing one embedding does: it yields an embedding, the encoder
\* returns nothing, the encoder raises, or the image transformation raises
StepOutcomes == {"embedding", "none", "encode_raises", "transform_raises"}

\* The return value: None, or a list of embeddings named by their variant
MultiResult(is_none, encodings) == [is_none |-> is_none, encodings |-> encodings]

NoMultiResult == MultiResult(TRUE, <<>>)

\* FaceService.encode_face catches every exception of the encoder and
\* returns None; the embedding is returned otherwise
encode_face_returns(outcome) == outcome = "embedding"

\* The two loops of generate_multi_angle_encodings: the transformation of a
\* variant is not guarded, encode_face is, an embedding is appended if any
RECURSIVE api_variant_loop(_, _, _)
api_variant_loop(outcomes, i, encodings) ==
    IF i > Len(api_variants) THEN [raised |-> FALSE, encodings |-> encodings]
    ELSE IF outcomes[i] = "transform_raises" THEN [raised |-> TRUE, encodings |-> encodings]
    ELSE api_variant_loop(outcomes, i + 1,
            IF encode_face_returns(outcomes[i])
            THEN Append(encodings, api_variants[i]) ELSE encodings)

\* FaceService.generate_multi_angle_encodings: [] when the base encoding is
\* None and [] from the except clause around the whole body
generate_multi_angle_encodings(call) ==
    IF ~encode_face_returns(call.base) THEN MultiResult(FALSE, <<>>)
    ELSE LET loop == api_variant_loop(call.outcomes, 1, <<BaseVariant>>)
         IN  IF loop.raised THEN MultiResult(FALSE, <<>>)
             ELSE MultiResult(FALSE, loop.encodings)

\* The four variants of encode_face_multi_angle inside their one try block:
\* the first step that raises ends the block, what was collected is kept
RECURSIVE legacy_variant_block(_, _, _)
legacy_variant_block(outcomes, i, all_encodings) ==
    IF i > Len(legacy_variants) THEN all_encodings
    ELSE IF outcomes[i] \in {"encode_raises", "transform_raises"} THEN all_encodings
    ELSE legacy_variant_block(outcomes, i + 1,
            IF outcomes[i] = "embedding"
            THEN Append(all_encodings, legacy_variants[i]) ELSE all_encodings)

\* FaceRecognitionService.encode_face_multi_angle: without landmarks the
\* single encoding of encode_face; None when the base yields nothing or raises
encode_face_multi_angle(call) ==
    IF ~call.landmarks
    THEN IF call.base = "embedding"
         THEN MultiResult(FALSE, <<BaseVariant>>) ELSE NoMultiResult
    ELSE IF call.base # "embedding" THEN NoMultiResult
    ELSE MultiResult(FALSE, legacy_variant_block(call.outcomes, 1, <<BaseVariant>>))

\* The calls explored: the stack, whether landmarks are found, what the base
\* encoding does and what each configured variant does
MultiCall(stack, landmarks, base, outcomes) ==
    [stack |-> stack, landmarks |-> landmarks, base |-> base, outcomes |-> outcomes]

NoMultiCall == MultiCall("none", FALSE, "none", <<>>)

MultiCallsOf(stack) ==
    IF stack = "api"
    THEN {MultiCall("api", TRUE, b, o) :
            b \in StepOutcomes, o \in [1..Len(api_variants) -> StepOutcomes]}
    ELSE {MultiCall("legacy", l, b, o) :
            l \in BOOLEAN, b \in StepOutcomes, o \in [1..Len(legacy_variants) -> StepOutcomes]}

MultiIdle ==
    /\ ma_call = NoMultiCall
    /\ ma_done = FALSE
    /\ ma_result = NoMultiResult

MultiInit ==
    /\ \E stack \in {"api", "legacy"} : ma_call \in MultiCallsOf(stack)
    /\ ma_done = FALSE
    /\ ma_result = NoMultiResult

GenerateMultiAngleEncodings ==
    /\ ~ma_done
    /\ ma_call.stack = "api"
    /\ ma_result' = generate_multi_angle_encodings(ma_call)
    /\ ma_done' = TRUE
    /\ UNCHANGED <<ma_call, NotMulti>>

EncodeFaceMultiAngle ==
    /\ ~ma_done
    /\ ma_call.stack = "legacy"
    /\ ma_result' = encode_face_multi_angle(ma_call)
    /\ ma_done' = TRUE
    /\ UNCHANGED <<ma_call, NotMulti>>

MultiNext == GenerateMultiAngleEncodings \/ EncodeFaceMultiAngle

\* The variants in force for the stack called, and those that yield an embedding
VariantsOf(call) == IF call.stack = "api" THEN api_variants ELSE legacy_variants

Yielding(call) ==
    {i \in 1..Len(VariantsOf(call)) : call.outcomes[i] = "embedding"}

RECURSIVE YieldedFrom(_, _)
YieldedFrom(call, i) ==
    IF i > Len(VariantsOf(call)) THEN <<>>
    ELSE (IF i \in Yielding(call) THEN <<VariantsOf(call)[i]>> ELSE <<>>)
         \o YieldedFrom(call, i + 1)

BaseSucceeded == ma_done /\ ma_call.base = "embedding"

\* C11: whenever the base encoding succeeds, the multi-angle encoder returns a
\* non-empty sequence whose first element is the base embedding, even if every
\* perturbed variant raises an error or yields no embedding
C11_BaseAlwaysKept ==
    BaseSucceeded =>
        /\ ~ma_result.is_none
        /\ ma_result.encodings # <<>>
        /\ ma_result.encodings[1] = BaseVariant

\* The part of C11 the code keeps: encode_face_multi_angle keeps the base, and
\* so does generate_multi_angle_encodings when no transformation raises
C11_BaseKeptUnlessTransformRaises ==
    (BaseSucceeded
        /\ (ma_call.stack = "api"
            => \A i \in 1..Len(api_variants) : ma_call.outcomes[i] # "transform_raises"))
    => (~ma_result.is_none /\ ma_result.encodings # <<>>
        /\ ma_result.encodings[1] = BaseVariant)

\* C12: a failure (raised error or empty result) while producing one perturbed
\* variant skips only that variant; every other configured variant is still
\* attempted and appended in the configured order
C12_FailureSkipsOnlyThatVariant ==
    (BaseSucceeded /\ ma_call.landmarks)
    => ma_result.encodings = <<BaseVariant>> \o YieldedFrom(ma_call, 1)

\* The part of C12 the code keeps: a variant with an empty result, or with an
\* error that encode_face catches, is the only one skipped
C12_EmptyResultSkipsOnlyThatVariant ==
    (BaseSucceeded /\ ma_call.landmarks
        /\ \A i \in 1..Len(VariantsOf(ma_call)) :
              /\ ma_call.outcomes[i] # "transform_raises"
              /\ (ma_call.stack = "legacy" => ma_call.outcomes[i] # "encode_raises"))
    => ma_result.encodings = <<BaseVariant>> \o YieldedFrom(ma_call, 1)

(***************************************************************************)
(* Stored embeddings under registration, re-encoding and deletion          *)
(***************************************************************************)
\* The records and the face images explored
MaxRecords == 2

MaxImages == 2

RecordIds == 1..MaxRecords

Images == 1..MaxImages

\* An embedding is named by the image it was computed from and by the call
\* that computed it; calls with different jitter counts give different vectors
Embedding(image, by) == [image |-> image, by |-> by]

NullEmbedding == Embedding(0, "null")

\* FaceService.encode_face: face_recognition.face_encodings(image, [face_location])
encode_face_api(image) == Embedding(image, "encode_face")

\* FaceRecognitionService.encode_face: face_encodings(..., num_jitters=JITTER_COUNT)
encode_face_legacy(image) == Embedding(image, "encode_face_jitter_count")

\* The base of encode_face_multi_angle: face_encodings(..., num_jitters=MULTI_ANGLE_JITTER)
multi_angle_base_legacy(image) == Embedding(image, "multi_angle_jitter")

\* The vectors a multi-angle result stands for: the api base is encode_face
\* again, the legacy base is its own call unless landmarks are missing
multi_angle_vectors(image, call, result) ==
    [i \in 1..Len(result.encodings) |->
        IF result.encodings[i] # BaseVariant THEN Embedding(image, "variant")
        ELSE IF call.stack = "api" THEN encode_face_api(image)
        ELSE IF call.landmarks THEN multi_angle_base_legacy(image)
        ELSE encode_face_legacy(image)]

\* A row of the users table, reduced to its two embedding columns
EmbRow(present, face_encoding, multi, reencoded) ==
    [present |-> present, face_encoding |-> face_encoding,
     multi_angle_encodings |-> multi, reencoded |-> reencoded]

NoEmbRow == EmbRow(FALSE, NullEmbedding, <<>>, FALSE)

\* What the multi-angle encoder does during the operations explored: every
\* step succeeds, every variant is empty, the first transformation raises,
\* or the base yields nothing
EmbOutcomes(n) ==
    {[i \in 1..n |-> "embedding"], [i \in 1..n |-> "none"],
     [i \in 1..n |-> IF i = 1 THEN "transform_raises" ELSE "embedding"]}

EmbMultiCalls ==
    {MultiCall("api", TRUE, b, o) :
        b \in {"embedding", "none"}, o \in EmbOutcomes(Len(api_variants))}
    \cup {MultiCall("legacy", l, b, o) :
        l \in BOOLEAN, b \in {"embedding", "none"}, o \in EmbOutcomes(Len(legacy_variants))}

\* register_face of src/api/registration.py from the encoding on
register_embeddings_api(image, train_multiple, call) ==
    LET multi_encodings ==
            IF train_multiple
            THEN multi_angle_vectors(image, call, generate_multi_angle_encodings(call))
            ELSE <<>>
    IN  EmbRow(TRUE, encode_face_api(image), multi_encodings, FALSE)

\* register_face and register_with_file of routes/registration.py from the
\* encoding on: the multi-angle blob is stored from min_len vectors on
register_embeddings_legacy(image, train_multiple, call, min_len) ==
    LET result == encode_face_multi_angle(call)
        multi_encodings ==
            IF train_multiple THEN multi_angle_vectors(image, call, result) ELSE <<>>
        face_encoding ==
            IF Len(multi_encodings) > 0 THEN multi_encodings[1]
            ELSE encode_face_legacy(image)
    IN  EmbRow(TRUE, face_encoding,
               IF Len(multi_encodings) >= min_len THEN multi_encodings ELSE <<>>,
               FALSE)

\* process_face_encoding of src/api/registration.py with Database.update_user:
\* the multi-angle column is written only when the new list is not empty
reencode_api(row, image, call) ==
    LET multi_encodings == multi_angle_vectors(image, call, generate_multi_angle_encodings(call))
    IN  EmbRow(TRUE, encode_face_api(image),
               IF multi_encodings # <<>> THEN multi_encodings ELSE row.multi_angle_encodings,
               TRUE)

\* process_face_encoding of routes/registration.py with update_face_encoding:
\* UPDATE users SET face_encoding = ? and nothing else
reencode_legacy(row, image) ==
    EmbRow(TRUE, encode_face_legacy(image), row.multi_angle_encodings, TRUE)

EmbOp(op, id) == [op |-> op, id |-> id]

EmbIdle ==
    /\ e_rows = [id \in RecordIds |-> NoEmbRow]
    /\ e_op = EmbOp("idle", 0)

EmbInit ==
    /\ e_rows = [id \in RecordIds |-> NoEmbRow]
    /\ e_op = EmbOp("none", 0)

RegisterEmbeddingsApi ==
    \E id \in RecordIds, image \in Images, train_multiple \in BOOLEAN, call \in EmbMultiCalls :
        /\ ~e_rows[id].present
        /\ call.stack = "api"
        /\ e_rows' = [e_rows EXCEPT ![id] = register_embeddings_api(image, train_multiple, call)]
        /\ e_op' = EmbOp("register", id)
        /\ UNCHANGED NotEmb

RegisterEmbeddingsLegacy ==
    \E id \in RecordIds, image \in Images, train_multiple \in BOOLEAN,
       call \in EmbMultiCalls, min_len \in {1, 2} :
        /\ ~e_rows[id].present
        /\ call.stack = "legacy"
        /\ e_rows' = [e_rows EXCEPT ![id] =
                        register_embeddings_legacy(image, train_multiple, call, min_len)]
        /\ e_op' = EmbOp("register", id)
        /\ UNCHANGED NotEmb

\* The task returns without writing when the image gives no encoding, and the
\* UPDATE touches no row when the record is gone
ProcessFaceEncodingApi ==
    \E id \in RecordIds, image \in Images, call \in EmbMultiCalls :
        /\ e_rows[id].present
        /\ call.stack = "api"
        /\ call.base = "embedding"
        /\ e_rows' = [e_rows EXCEPT ![id] = reencode_api(e_rows[id], image, call)]
        /\ e_op' = EmbOp("reencode", id)
        /\ UNCHANGED NotEmb

ProcessFaceEncodingLegacy ==
    \E id \in RecordIds, image \in Images :
        /\ e_rows[id].present
        /\ e_rows' = [e_rows EXCEPT ![id] = reencode_legacy(e_rows[id], image)]
        /\ e_op' = EmbOp("reencode", id)
        /\ UNCHANGED NotEmb

DeleteEmbeddings ==
    \E id \in RecordIds :
        /\ e_rows[id].present
        /\ e_rows' = [e_rows EXCEPT ![id] = NoEmbRow]
        /\ e_op' = EmbOp("delete", id)
        /\ UNCHANGED NotEmb

EmbNext ==
    \/ RegisterEmbeddingsApi
    \/ RegisterEmbeddingsLegacy
    \/ ProcessFaceEncodingApi
    \/ ProcessFaceEncodingLegacy
    \/ DeleteEmbeddings

\* A record whose primary embedding is set and agrees with its multi-angle blob
EmbeddingsConsistent(row) ==
    /\ row.face_encoding # NullEmbedding
    /\ row.multi_angle_encodings # <<>>
        => row.multi_angle_encodings[1] = row.face_encoding

\* C13: after any sequence of registrations, background re-encodings and
\* deletions, every record created by a successful registration has exactly
\* one non-null primary embedding and, if it has a multi-angle blob, the
\* blob's first vector equals the record's current primary embedding
C13_PrimaryAgreesWithMultiAngle ==
    \A id \in RecordIds : e_rows[id].present => EmbeddingsConsistent(e_rows[id])

\* The part of C13 the code keeps: the primary embedding is never null, and a
\* record no re-encoding has touched agrees with its multi-angle blob
C13_ConsistentUntilReencoded ==
    \A id \in RecordIds :
        e_rows[id].present =>
            /\ e_rows[id].face_encoding # NullEmbedding
            /\ ~e_rows[id].reencoded => EmbeddingsConsistent(e_rows[id])

(***************************************************************************)
(* Response bodies and the users routes of src/api                         *)
(***************************************************************************)
\* The columns of the users table: dict(row) of SELECT * has them all
UserColumns ==
    {"id", "face_id", "name", "employee_id", "department", "role", "image_path",
     "image_url", "face_encoding", "multi_angle_encodings", "face_analysis",
     "created_at", "updated_at"}

EncodingColumns == {"face_encoding", "multi_angle_encodings"}

\* The user object a handler writes out by hand in register_face
RegisteredUserKeys ==
    {"id", "face_id", "name", "employee_id", "department", "role", "image_path", "created_at"}

\* Texts are sequences of letters; the searchable fields of a record
Profile(name, employee_id, department, role) ==
    [name |-> name, employee_id |-> employee_id, department |-> department, role |-> role]

NoProfile == Profile(<<>>, <<>>, <<>>, <<>>)

Profiles ==
    {Profile(<<"a", "b">>, <<"c">>, <<"c">>, <<"c">>),
     Profile(<<"c">>, <<"c">>, <<"c">>, <<"A">>),
     Profile(<<"c", "c">>, <<"b">>, <<"c">>, <<"c">>),
     Profile(<<"c">>, <<"c">>, <<"c", "a">>, <<"c">>)}

Queries == {<<"a">>, <<"b">>, <<"a", "b">>, <<"_">>}

\* A user dictionary in a body: whose it is and which keys it carries
UserDict(id, keys) == [id |-> id, keys |-> keys]

\* if "face_encoding" in user: del user["face_encoding"], and the same for
\* "multi_angle_encodings"
keep_encodings(user) == user

del_encodings(user) == UserDict(user.id, user.keys \ EncodingColumns)

\* DatabaseService.get_all_users and get_user_by_id delete the two columns
\* themselves; Database (src/utils) returns dict(row) unchanged
select_star(id) == UserDict(id, UserColumns)

Body(endpoint, status, from_cache, query, users) ==
    [endpoint |-> endpoint, status |-> status, from_cache |-> from_cache,
     query |-> query, users |-> users, path |-> ""]

NoBody == Body("none", 0, FALSE, <<>>, {})

CacheEntry(live, body) == [live |-> live, body |-> body]

NoCacheEntry == CacheEntry(FALSE, NoBody)

BodyRow(present, profile) == [present |-> present, profile |-> profile]

Present == {id \in RecordIds : b_users[id].present}

\* SQLite's LIKE '%q%' on one column: case-insensitive on ASCII letters, and
\* an underscore in q stands for any one character
fold(letter) == IF letter = "A" THEN "a" ELSE letter

like(text, q) ==
    \E offset \in 0..(Len(text) - Len(q)) :
        \A j \in 1..Len(q) : q[j] = "_" \/ fold(q[j]) = fold(text[offset + j])

\* Database.search_users: name, employee_id, department or role LIKE %query%
search_users_rows(q) ==
    {id \in Present :
        \/ like(b_users[id].profile.name, q)
        \/ like(b_users[id].profile.employee_id, q)
        \/ like(b_users[id].profile.department, q)
        \/ like(b_users[id].profile.role, q)}

BodyIdle ==
    /\ b_users = [id \in RecordIds |-> BodyRow(FALSE, NoProfile)]
    /\ b_cache = NoCacheEntry
    /\ b_users_cache = NoCacheEntry
    /\ b_body = NoBody

BodyInit ==
    /\ b_users = [id \in RecordIds |-> BodyRow(FALSE, NoProfile)]
    /\ b_cache = NoCacheEntry
    /\ b_users_cache = NoCacheEntry
    /\ b_body = Body("start", 0, FALSE, <<>>, {})

\* register_face of src/api/registration.py: the body carries a user object
\* written out key by key
RegisterBodyApi ==
    \E id \in RecordIds, profile \in Profiles :
        /\ ~b_users[id].present
        /\ b_users' = [b_users EXCEPT ![id] = BodyRow(TRUE, profile)]
        /\ b_body' = Body("register", 200, FALSE, <<>>, {UserDict(id, RegisteredUserKeys)})
        /\ UNCHANGED <<b_cache, b_users_cache, NotBody>>

\* register_face of routes/registration.py: the user is read back from the
\* store and the two columns are deleted from it
RegisterBodyLegacy ==
    \E id \in RecordIds, profile \in Profiles :
        /\ ~b_users[id].present
        /\ b_users' = [b_users EXCEPT ![id] = BodyRow(TRUE, profile)]
        /\ b_body' = Body("register_legacy", 200, FALSE, <<>>,
                          {del_encodings(del_encodings(select_star(id)))})
        /\ UNCHANGED <<b_cache, b_users_cache, NotBody>>

\* Database.delete_user: the row goes, the cached listings stay
DeleteBodyRow ==
    \E id \in Present :
        /\ b_users' = [b_users EXCEPT ![id] = BodyRow(FALSE, NoProfile)]
        /\ b_body' = Body("delete", 200, FALSE, <<>>, {})
        /\ UNCHANGED <<b_cache, b_users_cache, NotBody>>

\* get_users of src/api/users.py: the cached body if there is a live one,
\* else the rows without the two columns, which is then cached
GetUsers ==
    IF b_cache.live
    THEN /\ b_body' = [b_cache.body EXCEPT !.from_cache = TRUE]
         /\ UNCHANGED <<b_users, b_cache, b_users_cache, NotBody>>
    ELSE LET response == Body("get_users", 200, FALSE, <<>>,
                              {del_encodings(select_star(id)) : id \in Present})
         IN  /\ b_body' = response
             /\ b_cache' = CacheEntry(TRUE, response)
             /\ UNCHANGED <<b_users, b_users_cache, NotBody>>

\* get_users of routes/users.py with _users_cache
GetUsersLegacy ==
    IF b_users_cache.live
    THEN /\ b_body' = [b_users_cache.body EXCEPT !.from_cache = TRUE]
         /\ UNCHANGED <<b_users, b_cache, b_users_cache, NotBody>>
    ELSE LET result == Body("get_users_legacy", 200, FALSE, <<>>,
                            {del_encodings(del_encodings(select_star(id))) : id \in Present})
         IN  /\ b_body' = result
             /\ b_users_cache' = CacheEntry(TRUE, result)
             /\ UNCHANGED <<b_users, b_cache, NotBody>>

\* expires_at of the cache row, or the 10 seconds of _users_cache, passes
ExpireListings ==
    /\ b_cache.live \/ b_users_cache.live
    /\ b_cache' = NoCacheEntry
    /\ b_users_cache' = NoCacheEntry
    /\ b_body' = Body("expire", 0, FALSE, <<>>, {})
    /\ UNCHANGED <<b_users, NotBody>>

\* get_user_by_id of src/api/users.py, called with the path parameter
get_user_by_id_body(found, id) ==
    IF found
    THEN Body("get_user_by_id", 200, FALSE, <<>>, {del_encodings(select_star(id))})
    ELSE Body("get_user_by_id", 404, FALSE, <<>>, {})

\* search_users of src/api/users.py, called with the query parameter
search_users_body(q) ==
    Body("search_users", 200, FALSE, q, {del_encodings(select_star(id)) : id \in search_users_rows(q)})

\* The routes of src/api/users.py that match GET /api/users/<segment>, in the
\* order the decorators register them: "/api/users/{user_id}" comes first
\* and its parameter matches any one segment, "/api/users/search" comes last
users_routes == <<"/api/users/{user_id}", "/api/users/search">>

route_matches(route, segment) ==
    IF route = "/api/users/{user_id}" THEN TRUE ELSE segment = <<"search">>

\* Starlette's router: the first route that matches handles the request
first_match(routes, segment) ==
    routes[CHOOSE i \in 1..Len(routes) :
              /\ route_matches(routes[i], segment)
              /\ \A j \in 1..(i - 1) : ~route_matches(routes[j], segment)]

\* GET /api/users/<id of a record>
GetUserById ==
    \E id \in RecordIds :
        /\ b_body' = [get_user_by_id_body(id \in Present, id) EXCEPT !.path = "/api/users/<id>"]
        /\ UNCHANGED <<b_users, b_cache, b_users_cache, NotBody>>

\* GET /api/users/search?query=q: user identifiers are uuid4 strings, so no
\* row has the id "search"
GetUsersSearch ==
    \E q \in Queries :
        /\ b_body' =
             IF first_match(users_routes, <<"search">>) = "/api/users/search"
             THEN [search_users_body(q) EXCEPT !.path = "/api/users/search"]
             ELSE [get_user_by_id_body(FALSE, 0) EXCEPT
                      !.path = "/api/users/search", !.query = q]
        /\ UNCHANGED <<b_users, b_cache, b_users_cache, NotBody>>

\* The function search_users called directly with a query
SearchUsers ==
    \E q \in Queries :
        /\ b_body' = search_users_body(q)
        /\ UNCHANGED <<b_users, b_cache, b_users_cache, NotBody>>

\* recognize_face with a winning match: the user is read with
\* get_user_by_id and the two columns are deleted
RecognizedBody ==
    \E id \in Present :
        /\ b_body' = Body("recognize", 200, FALSE, <<>>, {del_encodings(select_star(id))})
        /\ UNCHANGED <<b_users, b_cache, b_users_cache, NotBody>>

BodyNext ==
    \/ RegisterBodyApi
    \/ RegisterBodyLegacy
    \/ DeleteBodyRow
    \/ GetUsers
    \/ GetUsersLegacy
    \/ ExpireListings
    \/ GetUserById
    \/ GetUsersSearch
    \/ SearchUsers
    \/ RecognizedBody

CarriesEncoding(body) == \E user \in body.users : user.keys \cap EncodingColumns # {}

contains(text, q) ==
    \E offset \in 0..(Len(text) - Len(q)) : \A j \in 1..Len(q) : q[j] = text[offset + j]

ContainingUsers(q) ==
    {id \in Present :
        \/ contains(b_users[id].profile.name, q)
        \/ contains(b_users[id].profile.employee_id, q)
        \/ contains(b_users[id].profile.department, q)
        \/ contains(b_users[id].profile.role, q)}

\* C18: GET /api/users/search?query=q is handled by the search operation and
\* returns exactly the users whose name, employee_id, department or role
\* contains q; it is never captured by the lookup-by-id route as id "search"
C18_SearchRouteReachesSearch ==
    b_body.path = "/api/users/search"
    => /\ b_body.endpoint = "search_users"
       /\ {user.id : user \in b_body.users} = ContainingUsers(b_body.query)

\* The part of C18 the code keeps: search_users, when it is called, returns
\* every user with a field that contains q
C18_SearchFindsContainingUsers ==
    b_body.endpoint = "search_users"
    => ContainingUsers(b_body.query) \subseteq {user.id : user \in b_body.users}

(***************************************************************************)
(* Properties of the recognition answer after a scan                       *)
(***************************************************************************)
\* The scan ran to its end over a non-empty candidate set and the request
\* has been answered
ScanAnswered == Answered /\ r_db # <<>> /\ ~r_scan.raised

\* The answer the claim describes for the result of the scan
ClassifiedAsClaimed ==
    IF r_scan.best_match.found
    THEN /\ r_response.recognized
         /\ r_response.user = r_scan.best_match.user_id
         /\ r_response.confidence = r_scan.best_match.confidence
         /\ IF r_scan.best_match.confidence >= Frac(7, 10)
            THEN ~r_response.possible_match
            ELSE /\ r_response.possible_match
                 /\ "pose_recommendation" \in r_response.diagnostic
                 /\ r_response.pose_recommendation = r_analysis.pose_recommendation
    ELSE /\ r_response.status = 200
         /\ ~r_response.recognized
         /\ "comparisons" \in r_response.diagnostic
         /\ r_response.comparisons = r_scan.total_comparisons
         /\ "pose_recommendation" \in r_response.diagnostic
         /\ r_response.pose_recommendation = r_analysis.pose_recommendation

\* C16: a winning match is always returned as recognized = true with its
\* user, as a high-confidence match when confidence (1 - distance) >= 0.7 and
\* otherwise with possible_match = true and the pose recommendation in its
\* diagnostic; a request with no candidate within tolerance returns
\* recognized = false with the comparison count and the pose recommendation
C16_MatchClassifiedByConfidence == ScanAnswered => ClassifiedAsClaimed

\* The part of C16 the code keeps: the classification is as claimed whenever
\* the matched user's row is still there when the handler reads it again
C16_ClassifiedWhenUserIsFound == (ScanAnswered /\ ~r_raised) => ClassifiedAsClaimed

(***************************************************************************)
(* Repeated comparisons on one service instance                            *)
(***************************************************************************)
\* How often the calls of one argument tuple are counted
MaxRepeats == 2

CompareArgs(variant, known, unknown, poses) ==
    [variant |-> variant, known |-> known, unknown |-> unknown, poses |-> poses]

RepeatArgs ==
    {CompareArgs(v, k, QueryEmbedding, p) :
        v \in {"api", "legacy"},
        k \in {Emb(Frac(13, 20)), BadEmbedding},
        p \in {NoPoses, MkPoses(MkPose(40, 0, 0), MkPose(0, 0, 0))}}

\* FaceService.compare_faces assigns to no attribute of self: self.tolerance
\* after the call is what it was before
tolerance_after_compare_adjusted(tolerance, result) == result.adjusted_tolerance

tolerance_after_compare(tolerance, result) == tolerance

\* The result of one call: the api method reads self.tolerance, the legacy
\* static method takes its default tolerance=0.55
compare_call(tolerance, args) ==
    IF args.variant = "api"
    THEN compare_faces(tolerance, args.known, args.unknown, args.poses)
    ELSE compare_faces_legacy(LegacyTolerance, args.known, args.unknown, args.poses)

RepeatIdle ==
    /\ d_tolerance = 0
    /\ d_results = [a \in RepeatArgs |-> {}]
    /\ d_count = [a \in RepeatArgs |-> 0]
    /\ d_last = "idle"

\* FaceService.__init__: self.tolerance = config.FACE_RECOGNITION_TOLERANCE
RepeatInit ==
    /\ d_tolerance \in ConfiguredTolerances
    /\ d_results = [a \in RepeatArgs |-> {}]
    /\ d_count = [a \in RepeatArgs |-> 0]
    /\ d_last = "init"

\* One more call of compare_faces, with any of the argument tuples
CompareAgain ==
    \E args \in RepeatArgs :
        LET result == compare_call(d_tolerance, args)
        IN  /\ d_results' = [d_results EXCEPT ![args] = @ \cup {result}]
            /\ d_count' = [d_count EXCEPT ![args] = Min(@ + 1, MaxRepeats)]
            /\ d_tolerance' = IF args.variant = "api"
                              THEN tolerance_after_compare(d_tolerance, result)
                              ELSE d_tolerance
            /\ d_last' = "compare_faces"
            /\ UNCHANGED NotRepeat

\* A call of another method of the service (detect_faces, encode_face,
\* analyze_face, generate_multi_angle_encodings): none assigns to self
OtherServiceCall ==
    /\ d_last # "other"
    /\ d_last' = "other"
    /\ UNCHANGED <<d_tolerance, d_results, d_count, NotRepeat>>

RepeatNext == CompareAgain \/ OtherServiceCall

NumThreads == 3

Threads == 1..NumThreads

\* The library calls of one request, in the order a handler makes them:
\* detect_faces, analyze_face, encode_face, compare_faces
EngineCalls == <<"face_locations", "face_landmarks", "face_encodings", "face_distance">>

EngineThread(stack, step, at) == [stack |-> stack, step |-> step, at |-> at]

IdleThread == EngineThread("none", 0, "out")

\* FaceRecognitionService (routes/) wraps every such call in
\* "with FACE_RECOGNITION_LOCK:"; FaceService (src/) calls the library bare
takes_lock(stack) == stack = "legacy"

EngineIdle ==
    /\ k_lock = 0
    /\ k_threads = [t \in Threads |-> EngineThread("idle", 0, "out")]

EngineInit ==
    /\ k_lock = 0
    /\ k_threads = [t \in Threads |-> IdleThread]

\* A handler of either stack starts on a free thread
StartHandler(t) ==
    /\ k_threads[t] = IdleThread
    /\ \E stack \in {"api", "legacy"} :
        k_threads' = [k_threads EXCEPT ![t] = EngineThread(stack, 1, "out")]
    /\ UNCHANGED <<k_lock, NotEngine>>

\* The thread reaches its next library call: it enters the library at once,
\* or it first acquires the lock, waiting while another thread holds it
EnterEngine(t) ==
    /\ k_threads[t].stack \in {"api", "legacy"}
    /\ k_threads[t].at = "out"
    /\ IF takes_lock(k_threads[t].stack)
       THEN /\ k_lock = 0
            /\ k_lock' = t
       ELSE UNCHANGED k_lock
    /\ k_threads' = [k_threads EXCEPT ![t].at = "engine"]
    /\ UNCHANGED NotEngine

\* The library call returns; the with block, if any, releases the lock; after
\* the last call the handler ends
LeaveEngine(t) ==
    /\ k_threads[t].at = "engine"
    /\ k_lock' = IF k_lock = t THEN 0 ELSE k_lock
    /\ k_threads' = [k_threads EXCEPT ![t] =
                        IF k_threads[t].step = Len(EngineCalls) THEN IdleThread
                        ELSE EngineThread(k_threads[t].stack, k_threads[t].step + 1, "out")]
    /\ UNCHANGED NotEngine

EngineNext == \E t \in Threads : StartHandler(t) \/ EnterEngine(t) \/ LeaveEngine(t)

InEngine == {t \in Threads : k_threads[t].at = "engine"}

\* C19: at most one thread at a time executes a call into the embedding
\* engine, and every such call made by the face service the request handlers
\* use is made while holding the single process-wide mutex
C19_EngineCallsSerialized ==
    /\ Cardinality(InEngine) <= 1
    /\ \A t \in InEngine : k_lock = t

\* The part of C19 the code keeps: the threads of the routes/ handlers are
\* in the library one at a time and hold the lock while they are
C19_LegacyCallsSerialized ==
    /\ Cardinality({t \in InEngine : k_threads[t].stack = "legacy"}) <= 1
    /\ \A t \in InEngine : k_threads[t].stack = "legacy" => k_lock = t

(***************************************************************************)
(* Connections of the store operations (Database of src/utils and          *)
(* DatabaseService of services/)                                           *)
(***************************************************************************)
\* How many connections left open are counted
MaxLeaked == 2

StoreOp(name, stack, writes) == [name |-> name, stack |-> stack, writes |-> writes]

StoreOps ==
    {StoreOp("add_user", "api", TRUE), StoreOp("delete_user", "api", TRUE),
     StoreOp("update_user", "api", TRUE), StoreOp("get_user_by_id", "api", FALSE),
     StoreOp("add_user", "legacy", TRUE), StoreOp("delete_user", "legacy", TRUE),
     StoreOp("update_face_encoding", "legacy", TRUE),
     StoreOp("get_user_by_id", "legacy", FALSE)}

OpState(op, pc, ended) == [op |-> op, pc |-> pc, ended |-> ended]

NoOp == OpState(StoreOp("none", "none", FALSE), "idle", "none")

Conn(open, pending) == [open |-> open, pending |-> pending]

NoConn == Conn(FALSE, FALSE)

\* The connections left behind: how many are still open and how many the
\* interpreter has freed
Leaked(open, freed) == [open |-> open, freed |-> freed]

\* What an exception inside the operation leads to.  Database (src/utils):
\* "except Exception: logger.error(...); raise".  DatabaseService: the
\* writing operations have no try block, get_all_users and get_user_by_id
\* print and return [] or None.  None of them closes the connection.
on_exception(op) ==
    IF op.stack = "legacy" /\ ~op.writes THEN "returned" ELSE "raised"

ConnIdle ==
    /\ c_op = OpState(StoreOp("idle", "none", FALSE), "idle", "none")
    /\ c_conn = NoConn
    /\ c_leaked = Leaked(0, 0)

ConnInit ==
    /\ c_op = NoOp
    /\ c_conn = NoConn
    /\ c_leaked = Leaked(0, 0)

\* conn = self.get_connection(): a new connection for this call; what the
\* previous call left open stays open
Connect ==
    /\ c_op.pc \in {"idle", "returned", "raised"}
    /\ c_leaked.open + c_leaked.freed + (IF c_conn.open THEN 1 ELSE 0) <= MaxLeaked
    /\ \E op \in StoreOps : c_op' = OpState(op, "connected", "none")
    /\ c_leaked' = [c_leaked EXCEPT !.open = @ + (IF c_conn.open THEN 1 ELSE 0)]
    /\ c_conn' = Conn(TRUE, FALSE)
    /\ UNCHANGED NotConn

\* cursor.execute(...): a writing statement opens a transaction; a statement
\* that fails ends the operation
Execute ==
    /\ c_op.pc = "connected"
    /\ \E fails \in BOOLEAN :
        IF fails
        THEN /\ c_op' = OpState(c_op.op, on_exception(c_op.op), "error")
             /\ UNCHANGED c_conn
        ELSE /\ c_op' = OpState(c_op.op, "executed", "none")
             /\ c_conn' = Conn(TRUE, c_op.op.writes)
    /\ UNCHANGED <<c_leaked, NotConn>>

\* conn.commit() of the writing operations: it can fail (database is locked)
Commit ==
    /\ c_op.pc = "executed"
    /\ c_op.op.writes
    /\ \E fails \in BOOLEAN :
        IF fails
        THEN /\ c_op' = OpState(c_op.op, on_exception(c_op.op), "error")
             /\ UNCHANGED c_conn
        ELSE /\ c_op' = OpState(c_op.op, "committed", "none")
             /\ c_conn' = Conn(TRUE, FALSE)
    /\ UNCHANGED <<c_leaked, NotConn>>

\* conn.close() and the return that follows it
CloseAndReturn ==
    /\ \/ c_op.pc = "committed"
       \/ c_op.pc = "executed" /\ ~c_op.op.writes
    /\ c_conn' = NoConn
    /\ c_op' = OpState(c_op.op, "returned", "ok")
    /\ UNCHANGED <<c_leaked, NotConn>>

\* The interpreter frees a connection object nothing refers to any more,
\* which closes it and rolls its transaction back
Finalize ==
    /\ c_leaked.open > 0
    /\ c_leaked' = Leaked(c_leaked.open - 1, c_leaked.freed + 1)
    /\ UNCHANGED <<c_op, c_conn, NotConn>>

ConnNext == Connect \/ Execute \/ Commit \/ CloseAndReturn \/ Finalize

OpEnded == c_op.pc \in {"returned", "raised"}

\* C20: every store operation opens its own connection and closes it before
\* it returns or raises; no connection is left open and no uncommitted
\* transaction is left pending
C20_ConnectionClosedAtExit ==
    /\ OpEnded => (~c_conn.open /\ ~c_conn.pending)
    /\ c_leaked.open = 0

\* The part of C20 the code keeps: an operation that ends without an error
\* has committed and closed its connection
C20_ClosedOnSuccess ==
    (OpEnded /\ c_op.ended = "ok") => (~c_conn.open /\ ~c_conn.pending)

(***************************************************************************)
(* Properties of the tolerance the scan compares with                      *)
(***************************************************************************)
\* The pose of the query face or of the stored identity is unavailable: the
\* analysis is empty, its pose is the empty dict of a failed estimation, or
\* the stored record carries no pose metadata.
PoseUnavailable(face_analysis, db_face) ==
    \/ ~face_analysis.present
    \/ face_analysis.pose.keys = {}
    \/ db_face.face_analysis.kind # "pose"
    \/ db_face.face_analysis.pose.keys = {}

\* The adjusted tolerance the scan used for a pair of the candidate set
ToleranceUsed(c) == adjusted_tolerance(r_tolerance, scan_poses(r_analysis, c.db_face))

\* C21: when the pose of the query face or of the stored identity is
\* unavailable (estimation failed or came back empty, or the record has no
\* pose metadata), the comparison uses adjusted_tolerance = base tolerance,
\* and so does the match the scan settles on; the tolerance is widened only
\* when both poses were estimated.
C21_NoPoseNoWidening ==
    (Scanned /\ ~r_scan.raised) =>
        LET cs == AllComparisons(r_db)
        IN /\ \A i \in 1..Len(cs) :
                PoseUnavailable(r_analysis, cs[i].db_face) => ToleranceUsed(cs[i]) = r_tolerance
           /\ \A i \in 1..Len(r_db) :
                (/\ r_scan.best_match.found
                 /\ r_scan.best_match.user_id = r_db[i].id
                 /\ PoseUnavailable(r_analysis, r_db[i]))
                    => r_scan.best_match.adjusted_tolerance = r_tolerance

\* The part of it that holds: without a pose key on either side the
\* comparison is made with the base tolerance.
C21_NoPoseKeyNoWidening ==
    (Scanned /\ ~r_scan.raised) =>
        LET cs == AllComparisons(r_db)
        IN \A i \in 1..Len(cs) :
                (~r_analysis.present \/ cs[i].db_face.face_analysis.kind # "pose")
                    => ToleranceUsed(cs[i]) = r_tolerance

(***************************************************************************)
(* Properties of the pose gate of registration                             *)
(***************************************************************************)
\* The last request is a registration without bypass_angle_check that
\* created a record.
GatedRegistration ==
    /\ st_req.op = "register"
    /\ st_req.created
    /\ ~st_req.input.bypass_angle_check

\* A pose estimate was obtained for the face.
PoseObtained(analysis) == analysis.present /\ analysis.pose.keys # {}

\* The pose lies within the angle thresholds of the endpoint's stack.
WithinAngleThresholds(req) ==
    IF req.stack = "api"
    THEN ~angle_not_optimal(req.input.analysis)
    ELSE ~angle_not_optimal_legacy(req.input.analysis)

\* C22: with bypass_angle_check = false a registration creates a record only
\* if a pose estimate for the detected face was obtained and lies within the
\* endpoint's angle thresholds; a registration whose landmark detection or
\* pose estimation failed does not succeed.
C22_RecordOnlyWithGoodPose ==
    GatedRegistration =>
        /\ PoseObtained(st_req.input.analysis)
        /\ WithinAngleThresholds(st_req)

\* The part of it that holds: a record is created only if the pose that was
\* obtained, if any, lies within the thresholds.
C22_ObtainedPoseWithinThresholds ==
    GatedRegistration => WithinAngleThresholds(st_req)

(***************************************************************************)
(* Properties of the image files registrations write                       *)
(***************************************************************************)
\* The records whose image_path names the file
OwnersOf(file) == {row \in st_users : row.image_path = file}

\* The last request is a registration that ended in an error response.
FailedRegistration == st_req.op = "register" /\ st_req.status # 200

\* C23: whenever no request is in flight, every image file a registration
\* wrote is owned by exactly one existing record; a registration that ends
\* in an error response, a failed insert after the image was saved included,
\* leaves neither a record nor an image file.
C23_EveryFileOwnedByOneRecord ==
    /\ \A file \in st_files : Cardinality(OwnersOf(file)) = 1
    /\ FailedRegistration => ~st_req.created

\* The part of it that holds: a failed registration leaves no record, and
\* the file of a successful one is owned by the record it created.
C23_FailedRegistrationLeavesNoRecord ==
    /\ FailedRegistration => ~st_req.created
    /\ (st_req.op = "register" /\ st_req.created) =>
            /\ HasRow(st_req.user_id)
            /\ RowOf(st_req.user_id).image_path # NoFile =>
                    /\ RowOf(st_req.user_id).image_path \in st_files
                    /\ OwnersOf(RowOf(st_req.user_id).image_path) = {RowOf(st_req.user_id)}

(***************************************************************************)
(* Properties of a registration whose insert fails                         *)
(***************************************************************************)
\* The last request is a registration that reached its insert, which failed
\* the first time; a second insert would succeed ("db_once") or fail too
\* ("db").
InsertFailed(fault) == st_req.op = "register" /\ st_req.input.fault = fault

\* C24: when the store write of a registration fails, one further insert is
\* attempted with reduced fields and the same face_id, image path and
\* primary embedding; if that insert succeeds the request reports success
\* with the new record, and if it fails too the request ends with a 500.
C24_FailedInsertRetriedOnce ==
    /\ InsertFailed("db_once") =>
            /\ st_req.status = 200
            /\ st_req.created
            /\ HasRow(st_req.user_id)
            /\ RowOf(st_req.user_id).image_path \in st_files
    /\ InsertFailed("db") => (st_req.status = 500 /\ ~st_req.created)

\* The same for register_with_file of routes/registration.py alone, the
\* handler that has the fallback.
C24_RegisterWithFileRetriesOnce ==
    /\ (InsertFailed("db_once") /\ st_req.stack = "legacy_file") =>
            /\ st_req.status = 200
            /\ st_req.created
            /\ HasRow(st_req.user_id)
            /\ RowOf(st_req.user_id).image_path \in st_files
    /\ InsertFailed("db") => (st_req.status = 500 /\ ~st_req.created)

(***************************************************************************)
(* analyze_face: the pose label and the recommendations                    *)
(***************************************************************************)
\* Angles on both sides of every threshold of the two implementations
AnalyzeAngles == {0 - 31, 0 - 30, 0 - 21, 0 - 16, 0 - 11, 0, 11, 15, 16, 20, 21, 30, 31}

AnalyzeCall(stack, pose) == [stack |-> stack, pose |-> pose]

NoAnalyzeCall == AnalyzeCall("none", EmptyPose)

\* pose_quality is "none" where the result has no such key
AnalyzeResult(returned, pose_quality, recommendations) ==
    [returned |-> returned, pose_quality |-> pose_quality,
     pose_recommendation |-> recommendations]

NoAnalyzeResult == AnalyzeResult(FALSE, "none", <<>>)

\* FaceRecognitionService.analyze_face, lines 259-291, for the pose that
\* estimate_face_pose returned
analyze_face_legacy(pose) ==
    IF Abs(pose.yaw) > 30
    THEN AnalyzeResult(TRUE, "poor",
                       IF pose.yaw > 0 THEN <<"Turn your head slightly to the right">>
                       ELSE <<"Turn your head slightly to the left">>)
    ELSE IF Abs(pose.pitch) > 20
    THEN AnalyzeResult(TRUE, "poor",
                       IF pose.pitch > 0 THEN <<"Tilt your head up slightly">>
                       ELSE <<"Tilt your head down slightly">>)
    ELSE IF Abs(pose.roll) > 15
    THEN AnalyzeResult(TRUE, "poor", <<"Straighten your head (it's tilted)">>)
    ELSE AnalyzeResult(TRUE, "good", <<>>)

\* FaceService.analyze_face, lines 259-275: the result carries the pose, an
\* alignment_quality computed from the image, and the list of
\* recommendations if it is not empty; it has no label of the pose
analyze_face_api(pose) ==
    AnalyzeResult(TRUE, "none", Analysis(pose).pose_recommendation)

\* analyze_face of the stack
analyze_face_of(stack, pose) ==
    IF stack = "api" THEN analyze_face_api(pose) ELSE analyze_face_legacy(pose)

AnalyzeIdle ==
    /\ a_call = NoAnalyzeCall
    /\ a_result = NoAnalyzeResult

AnalyzeInit ==
    /\ a_call \in {AnalyzeCall(stack, MkPose(y, p, r)) :
                     stack \in {"api", "legacy"}, y \in AnalyzeAngles,
                     p \in AnalyzeAngles, r \in AnalyzeAngles}
    /\ a_result = NoAnalyzeResult

\* FaceService.analyze_face(image, face_location)
AnalyzeFaceApi ==
    /\ a_call.stack = "api"
    /\ ~a_result.returned
    /\ a_result' = analyze_face_of("api", a_call.pose)
    /\ UNCHANGED <<a_call, NotAnalyze>>

\* FaceRecognitionService.analyze_face(image_array, face_location)
AnalyzeFaceLegacy ==
    /\ a_call.stack = "legacy"
    /\ ~a_result.returned
    /\ a_result' = analyze_face_of("legacy", a_call.pose)
    /\ UNCHANGED <<a_call, NotAnalyze>>

AnalyzeNext == AnalyzeFaceApi \/ AnalyzeFaceLegacy

\* |yaw| <= 30 and |pitch| <= 20 and |roll| <= 15
WithinGoodPose(pose) ==
    Abs(pose.yaw) <= 30 /\ Abs(pose.pitch) <= 20 /\ Abs(pose.roll) <= 15

\* The axis of the first exceeded threshold, in the order yaw, pitch, roll,
\* and whether the angle on it is positive
FirstExceeded(pose) ==
    IF Abs(pose.yaw) > 30 THEN [axis |-> "yaw", positive |-> pose.yaw > 0]
    ELSE IF Abs(pose.pitch) > 20 THEN [axis |-> "pitch", positive |-> pose.pitch > 0]
    ELSE [axis |-> "roll", positive |-> pose.roll > 0]

\* The axis a recommendation is about
AxisOf(text) ==
    IF text \in {"Turn your head slightly to the right", "Turn your head slightly to the left",
                 "Turn your face slightly to the right", "Turn your face slightly to the left"}
    THEN "yaw"
    ELSE IF text \in {"Tilt your head up slightly", "Tilt your head down slightly",
                      "Tilt your face slightly upward", "Tilt your face slightly downward"}
    THEN "pitch"
    ELSE "roll"

\* The result is the one of the claim for the pose: the label, one
\* recommendation about the first exceeded axis, and the same recommendation
\* for every pose with the same first exceeded axis and sign.
LabelledAsClaimed(stack, pose, result) ==
    /\ result.pose_quality = "good" <=> WithinGoodPose(pose)
    /\ ~WithinGoodPose(pose) =>
            /\ result.pose_quality = "poor"
            /\ Len(result.pose_recommendation) = 1
            /\ AxisOf(result.pose_recommendation[1]) = FirstExceeded(pose).axis
            /\ \A other \in AnalyzeAngles :
                    LET q == [pose EXCEPT ![FirstExceeded(pose).axis] = other]
                    IN (/\ ~WithinGoodPose(q)
                        /\ FirstExceeded(q) = FirstExceeded(pose))
                            => analyze_face_of(stack, q).pose_recommendation
                                    = result.pose_recommendation
    /\ WithinGoodPose(pose) => result.pose_recommendation = <<>>

\* C25: analyze_face labels a pose good if and only if |yaw| <= 30 and
\* |pitch| <= 20 and |roll| <= 15; otherwise it labels it poor and returns
\* exactly one recommendation, chosen by the first exceeded threshold in the
\* order yaw, pitch, roll and by the sign of that angle.
C25_PoseLabelAndOneRecommendation ==
    a_result.returned => LabelledAsClaimed(a_call.stack, a_call.pose, a_result)

\* The same for analyze_face of the lock-guarded service alone.
C25_LegacyPoseLabelAndOneRecommendation ==
    (a_result.returned /\ a_call.stack = "legacy")
        => LabelledAsClaimed(a_call.stack, a_call.pose, a_result)

(***************************************************************************)
(* Properties of the permits of the gate                                   *)
(***************************************************************************)
\* The requests that hold a permit or wait for one
InFlight == {q \in Requests : g_pc[q] \in {"waiting", "inside"}}

\* The requests that acquired a permit and left the gated section
LeftGate == {q \in Requests : g_pc[q] = "done"}

\* C26: every request that acquires a permit releases it exactly once on
\* every exit path (normal completion, the early 400, a caught exception);
\* the available permits never exceed the configured limit and equal it
\* whenever no recognition request is in flight.
C26_PermitReleasedExactlyOnce ==
    (g_pc # [q \in Requests |-> "idle"]) =>
        /\ \A q \in LeftGate : g_exit[q] \in ExitPaths /\ g_released[q] = 1
        /\ \A q \in Requests \ LeftGate : g_released[q] = 0
        /\ g_value <= g_limit
        /\ g_value + Cardinality(InGate) = g_limit
        /\ InFlight = {} => g_value = g_limit

\* C26 witness: more requests than there are permits have left the gate,
\* some on each of the three exit paths, nothing is in flight and all
\* permits are back.
C26_Witness ==
    /\ InFlight = {}
    /\ g_value = g_limit
    /\ g_limit < Cardinality(LeftGate)
    /\ \A exit \in ExitPaths : \E q \in LeftGate : g_exit[q] = exit

(***************************************************************************)
(* Properties of a recognition whose match is deleted meanwhile            *)
(***************************************************************************)
\* The record of the best match was deleted after get_all_face_encodings
\* read the candidate set and before get_user_by_id read the full record.
MatchDeletedMeanwhile ==
    /\ Answered
    /\ r_scan.best_match.found
    /\ r_user = "none"

\* C27: when the record of the best-matching identity is deleted between the
\* read of the candidate set and the fetch of the full user record, the
\* request still ends with a well-formed 200 answer, never with a 500 and
\* never by dereferencing the missing record.
C27_DeletedMatchStillAnswers200 ==
    MatchDeletedMeanwhile => (r_response.status = 200 /\ ~r_raised)

\* The part of it that holds: the request is answered, and with the record
\* still there the answer is the 200 of a recognized user.
C27_PresentMatchAnswers200 ==
    (Answered /\ r_scan.best_match.found /\ r_user = "row") =>
        (r_response.status = 200 /\ r_response.recognized /\ ~r_raised)

(***************************************************************************)
(* Properties of the listing of GET /api/users                             *)
(***************************************************************************)
\* The last request is a listing of src/api/users.py.
ListingAnswered == b_body.endpoint = "get_users"

\* The identities the listing names, which its total counts
ListedIds == {user.id : user \in b_body.users}

\* C28: a GET /api/users listing that starts after a registration or a
\* deletion has completed returns a listing and a total consistent with the
\* store at that time, also when an earlier listing for the same page and
\* limit is still in the response cache.
C28_ListingConsistentWithStore ==
    ListingAnswered =>
        /\ ListedIds = Present
        /\ Cardinality(b_body.users) = Cardinality(Present)

\* The part of it that holds: a listing that is not served from the cache
\* is consistent with the store.
C28_FreshListingConsistentWithStore ==
    (ListingAnswered /\ ~b_body.from_cache) =>
        /\ ListedIds = Present
        /\ Cardinality(b_body.users) = Cardinality(Present)

(***************************************************************************)
(* FACE_RECOGNITION_LOCK in the methods of FaceRecognitionService          *)
(* (services/face_recognition_service.py)                                  *)
(***************************************************************************)
\* Number of threads that call the service concurrently
NumCallers == 2

Callers == 1..NumCallers

LockedMethods ==
    {"detect_faces", "detect_facial_landmarks", "encode_face", "encode_face_multi_angle",
     "compare_faces"}

\* A step of a method: a library call inside "with FACE_RECOGNITION_LOCK:"
\* (kind "with") or a call of another method of the service (kind "call").
\* optional: the step is under a condition; ends: the method returns when
\* the library call comes back empty (with) or after the call (call).
MethodStep(kind, what, optional, ends) ==
    [kind |-> kind, what |-> what, optional |-> optional, ends |-> ends]

\* The steps of each method, in program order
method_steps(method) ==
    CASE method = "detect_faces" ->
            \* lines 339-348: hog, and cnn if nothing was found and it is enabled
            <<MethodStep("with", "face_locations", FALSE, FALSE),
              MethodStep("with", "face_locations", TRUE, FALSE)>>
      [] method = "detect_facial_landmarks" ->
            \* lines 178-192
            <<MethodStep("with", "face_locations", TRUE, TRUE),
              MethodStep("with", "face_landmarks", FALSE, FALSE)>>
      [] method = "encode_face" ->
            \* lines 363-384: the with block of either branch of "if landmarks"
            <<MethodStep("with", "face_locations", TRUE, TRUE),
              MethodStep("call", "detect_facial_landmarks", FALSE, FALSE),
              MethodStep("with", "face_encodings", FALSE, FALSE)>>
      [] method = "encode_face_multi_angle" ->
            \* lines 404-483: without landmarks the method returns what
            \* encode_face gives; else the base encoding and four variants
            <<MethodStep("with", "face_locations", TRUE, TRUE),
              MethodStep("call", "detect_facial_landmarks", FALSE, FALSE),
              MethodStep("call", "encode_face", TRUE, TRUE),
              MethodStep("with", "face_encodings", FALSE, TRUE),
              MethodStep("with", "face_encodings", FALSE, FALSE),
              MethodStep("with", "face_encodings", FALSE, FALSE),
              MethodStep("with", "face_encodings", FALSE, FALSE),
              MethodStep("with", "face_encodings", FALSE, FALSE)>>
      [] OTHER ->
            \* compare_faces, lines 531-532
            <<MethodStep("with", "face_distance", FALSE, FALSE)>>

Frame(method, pc) == [method |-> method, pc |-> pc]

\* frames: the innermost call last; at: "out" or "engine" (inside a with
\* block, in the library)
Caller(frames, at) == [frames |-> frames, at |-> at]

IdleCaller == Caller(<<>>, "out")

\* How a guarded library call ends
EngineOutcomes == {"value", "empty", "raised"}

exit_releases_unless_raised(outcome) == outcome \in {"value", "empty"}

\* "with FACE_RECOGNITION_LOCK:" releases the lock when the block is left,
\* by its end or by an exception of the library call
exit_releases(outcome) == outcome \in EngineOutcomes

RECURSIVE unwind(_)
\* A method whose steps are done returns to its caller
unwind(frames) ==
    IF frames = <<>> THEN frames
    ELSE LET top == frames[Len(frames)]
         IN IF top.pc > Len(method_steps(top.method))
            THEN unwind(SubSeq(frames, 1, Len(frames) - 1))
            ELSE frames

\* The innermost method moves on to its next step
advance(frames) ==
    [frames EXCEPT ![Len(frames)].pc = @ + 1]

\* The innermost method returns
return(frames) == SubSeq(frames, 1, Len(frames) - 1)

\* The step the thread is at
StepOf(t) ==
    LET top == l_threads[t].frames[Len(l_threads[t].frames)]
    IN method_steps(top.method)[top.pc]

Busy(t) == l_threads[t].frames # <<>>

LockIdle ==
    /\ l_lock = 0
    /\ l_threads = [t \in Callers |-> Caller(<<>>, "idle")]
    /\ l_outcome = "none"

LockInit ==
    /\ l_lock = 0
    /\ l_threads = [t \in Callers |-> IdleCaller]
    /\ l_outcome = "none"

\* A thread calls one of the five methods
CallService(t) ==
    /\ ~Busy(t)
    /\ \E method \in LockedMethods :
        l_threads' = [l_threads EXCEPT ![t] = Caller(<<Frame(method, 1)>>, "out")]
    /\ UNCHANGED <<l_lock, l_outcome, NotLock>>

\* The condition of an optional step is false
SkipStep(t) ==
    /\ Busy(t)
    /\ l_threads[t].at = "out"
    /\ StepOf(t).optional
    /\ l_threads' = [l_threads EXCEPT ![t].frames = unwind(advance(@))]
    /\ UNCHANGED <<l_lock, l_outcome, NotLock>>

\* A method calls another method of the service
CallMethod(t) ==
    /\ Busy(t)
    /\ l_threads[t].at = "out"
    /\ StepOf(t).kind = "call"
    /\ LET step == StepOf(t)
           frames == l_threads[t].frames
           after == IF step.ends
                    THEN [frames EXCEPT ![Len(frames)].pc =
                                Len(method_steps(frames[Len(frames)].method)) + 1]
                    ELSE advance(frames)
       IN l_threads' = [l_threads EXCEPT ![t].frames = Append(after, Frame(step.what, 1))]
    /\ UNCHANGED <<l_lock, l_outcome, NotLock>>

\* __enter__ of "with FACE_RECOGNITION_LOCK:": threading.Lock is not
\* reentrant, the thread waits while any thread, itself included, holds it
AcquireLock(t) ==
    /\ Busy(t)
    /\ l_threads[t].at = "out"
    /\ StepOf(t).kind = "with"
    /\ l_lock = 0
    /\ l_lock' = t
    /\ l_threads' = [l_threads EXCEPT ![t].at = "engine"]
    /\ UNCHANGED <<l_outcome, NotLock>>

\* The library call ends and the with block is left; an exception is caught
\* by the except clause of the method, which returns
LeaveWith(t) ==
    /\ l_threads[t].at = "engine"
    /\ \E outcome \in EngineOutcomes :
        LET frames == l_threads[t].frames
            next == IF outcome = "raised" \/ (outcome = "empty" /\ StepOf(t).ends)
                    THEN return(frames)
                    ELSE advance(frames)
        IN /\ l_lock' = IF exit_releases(outcome) THEN 0 ELSE l_lock
           /\ l_threads' = [l_threads EXCEPT ![t] = Caller(unwind(next), "out")]
           /\ l_outcome' = outcome
    /\ UNCHANGED NotLock

LockNext ==
    \E t \in Callers :
        CallService(t) \/ SkipStep(t) \/ CallMethod(t) \/ AcquireLock(t) \/ LeaveWith(t)

\* The thread is at the __enter__ of a with block.
AtAcquire(t) == Busy(t) /\ l_threads[t].at = "out" /\ StepOf(t).kind = "with"

\* C29: no thread tries to acquire FACE_RECOGNITION_LOCK while it holds it,
\* and every acquisition is released, also when the guarded library call
\* raises: the lock is held exactly by the thread that is inside a with
\* block; hence no interleaving of concurrent calls of the five methods
\* deadlocks: a thread that waits for the lock waits for a thread that is in
\* the library and will release it.
C29_LockNeverHeldAtAcquire ==
    /\ \A t \in Callers : AtAcquire(t) => l_lock # t
    /\ \A t \in Callers : (l_lock = t) <=> (l_threads[t].at = "engine")
    /\ \A t \in Callers :
            (AtAcquire(t) /\ l_lock # 0) =>
                (l_lock \in Callers /\ l_threads[l_lock].at = "engine")

\* C29 witness: a library call has raised, the lock is free again, and a
\* thread inside encode_face_multi_angle -> encode_face ->
\* detect_facial_landmarks is about to take the lock while another thread is
\* busy too.
C29_Witness ==
    /\ l_outcome = "raised"
    /\ l_lock = 0
    /\ \E t \in Callers :
        /\ AtAcquire(t)
        /\ Len(l_threads[t].frames) = 3
        /\ \E u \in Callers \ {t} : Busy(u)

(***************************************************************************)
(* The gate with its wake-ups observed, for the progress of waiting        *)
(* requests                                                                *)
(***************************************************************************)
\* Number of requests that arrive with an image in the progress
\* specification; the others were answered 400 before the gate
MaxArrivals == 3

WaitedIdle == w_waited = {}

GateFairInit ==
    /\ g_limit \in ConfiguredLimits
    /\ g_value = semaphore_value(g_limit)
    /\ g_waiters = <<>>
    /\ g_pc = [q \in Requests |-> IF q <= MaxArrivals THEN "start" ELSE "rejected"]
    /\ g_exit = [q \in Requests |-> "none"]
    /\ g_released = [q \in Requests |-> 0]
    /\ w_waited = {}

\* The steps before the section, as in the gate specification
ArriveObserved(q) == RejectNoImage(q) \/ Acquire(q) \/ Wait(q)

\* __aexit__, with the request it wakes recorded
LeaveObserved(q) ==
    /\ LeaveGate(q)
    /\ w_waited' = IF g_pc'[q] = "done" /\ g_waiters' # g_waiters
                   THEN w_waited \cup {Head(g_waiters)}
                   ELSE w_waited
    /\ UNCHANGED NotGateFair

GateFairNext == \E q \in Requests : ArriveObserved(q) \/ LeaveObserved(q)

\* Every engine call and store call returns, and the event loop runs a task
\* that is ready: a request inside the section reaches its end
GateFairness == \A q \in Requests : WF_vars(LeaveObserved(q))

\* C30: if every engine call and store call returns, every recognition
\* request that waits at the admission gate is eventually admitted and
\* eventually receives a response, however many requests arrive together.
C30_WaitingEventuallyAnswered ==
    \A q \in Requests :
        /\ (g_pc[q] = "waiting") ~> (g_pc[q] = "inside")
        /\ (g_pc[q] = "waiting") ~> (g_pc[q] = "done")

\* C30 witness: a request that waited behind another waiting request has
\* been admitted by a release and has received its response.
C30_Witness ==
    /\ Cardinality(w_waited) >= 2
    /\ \A q \in w_waited : g_pc[q] = "done"
    /\ \E q \in w_waited : g_released[q] = 1 /\ g_exit[q] \in ExitPaths

(***************************************************************************)
(* Specifications                                                          *)
(***************************************************************************)
\* Calls of compare_faces on inputs drawn from the sets above
InitCompare == CmpInit /\ RecIdle /\ CodecIdle /\ GateIdle /\ StoreIdle /\ MultiIdle /\ EmbIdle /\ BodyIdle /\ RepeatIdle /\ EngineIdle /\ ConnIdle /\ AnalyzeIdle /\ LockIdle /\ WaitedIdle

SpecCompare == InitCompare /\ [][CmpNext]_vars

\* One recognition request against a store content drawn from the sets above
InitRecognize == RecInit /\ CmpIdle /\ CodecIdle /\ GateIdle /\ StoreIdle /\ MultiIdle /\ EmbIdle /\ BodyIdle /\ RepeatIdle /\ EngineIdle /\ ConnIdle /\ AnalyzeIdle /\ LockIdle /\ WaitedIdle

SpecRecognize == InitRecognize /\ [][RecNext]_vars

\* Round trips of vectors through the multi-angle codec
InitCodec == CodecInit /\ CmpIdle /\ RecIdle /\ GateIdle /\ StoreIdle /\ MultiIdle /\ EmbIdle /\ BodyIdle /\ RepeatIdle /\ EngineIdle /\ ConnIdle /\ AnalyzeIdle /\ LockIdle /\ WaitedIdle

SpecCodec == InitCodec /\ [][CodecNext]_vars

\* Concurrent recognition requests passing the gate
InitGate == GateInit /\ CmpIdle /\ RecIdle /\ CodecIdle /\ StoreIdle /\ MultiIdle /\ EmbIdle /\ BodyIdle /\ RepeatIdle /\ EngineIdle /\ ConnIdle /\ AnalyzeIdle /\ LockIdle /\ WaitedIdle

SpecGate == InitGate /\ [][GateNext]_vars

\* Registrations, deletions and lookups on the identity store
InitStore == StoreInit /\ CmpIdle /\ RecIdle /\ CodecIdle /\ GateIdle /\ MultiIdle /\ EmbIdle /\ BodyIdle /\ RepeatIdle /\ EngineIdle /\ ConnIdle /\ AnalyzeIdle /\ LockIdle /\ WaitedIdle

SpecStore == InitStore /\ [][StoreNext]_vars

\* Calls of the two multi-angle encoders on step outcomes drawn from the sets above
InitMulti == MultiInit /\ CmpIdle /\ RecIdle /\ CodecIdle /\ GateIdle /\ StoreIdle /\ EmbIdle /\ BodyIdle /\ RepeatIdle /\ EngineIdle /\ ConnIdle /\ AnalyzeIdle /\ LockIdle /\ WaitedIdle

SpecMulti == InitMulti /\ [][MultiNext]_vars

\* Registrations, re-encodings and deletions on the embedding columns
InitEmb == EmbInit /\ CmpIdle /\ RecIdle /\ CodecIdle /\ GateIdle /\ StoreIdle /\ MultiIdle /\ BodyIdle /\ RepeatIdle /\ EngineIdle /\ ConnIdle /\ AnalyzeIdle /\ LockIdle /\ WaitedIdle

SpecEmb == InitEmb /\ [][EmbNext]_vars

\* Requests to the handlers that answer with user records
InitBody == BodyInit /\ CmpIdle /\ RecIdle /\ CodecIdle /\ GateIdle /\ StoreIdle /\ MultiIdle /\ EmbIdle /\ RepeatIdle /\ EngineIdle /\ ConnIdle /\ AnalyzeIdle /\ LockIdle /\ WaitedIdle

SpecBody == InitBody /\ [][BodyNext]_vars

\* Repeated calls of compare_faces on one service instance
InitRepeat == RepeatInit /\ CmpIdle /\ RecIdle /\ CodecIdle /\ GateIdle /\ StoreIdle /\ MultiIdle /\ EmbIdle /\ BodyIdle /\ EngineIdle /\ ConnIdle /\ AnalyzeIdle /\ LockIdle /\ WaitedIdle

SpecRepeat == InitRepeat /\ [][RepeatNext]_vars

\* Handlers of both stacks calling the face_recognition library from threads
InitEngine == EngineInit /\ CmpIdle /\ RecIdle /\ CodecIdle /\ GateIdle /\ StoreIdle /\ MultiIdle /\ EmbIdle /\ BodyIdle /\ RepeatIdle /\ ConnIdle /\ AnalyzeIdle /\ LockIdle /\ WaitedIdle

SpecEngine == InitEngine /\ [][EngineNext]_vars

\* Store operations of both stacks, one after the other, with failing statements
InitConn == ConnInit /\ CmpIdle /\ RecIdle /\ CodecIdle /\ GateIdle /\ StoreIdle /\ MultiIdle /\ EmbIdle /\ BodyIdle /\ RepeatIdle /\ EngineIdle /\ AnalyzeIdle /\ LockIdle /\ WaitedIdle

SpecConn == InitConn /\ [][ConnNext]_vars

InitAnalyze == AnalyzeInit /\ CmpIdle /\ RecIdle /\ CodecIdle /\ GateIdle /\ StoreIdle /\ MultiIdle /\ EmbIdle /\ BodyIdle /\ RepeatIdle /\ EngineIdle /\ ConnIdle /\ LockIdle /\ WaitedIdle

SpecAnalyze == InitAnalyze /\ [][AnalyzeNext]_vars

InitLock == LockInit /\ CmpIdle /\ RecIdle /\ CodecIdle /\ GateIdle /\ StoreIdle /\ MultiIdle /\ EmbIdle /\ BodyIdle /\ RepeatIdle /\ EngineIdle /\ ConnIdle /\ AnalyzeIdle /\ WaitedIdle

SpecLock == InitLock /\ [][LockNext]_vars

InitGateFair == GateFairInit /\ CmpIdle /\ RecIdle /\ CodecIdle /\ StoreIdle /\ MultiIdle /\ EmbIdle /\ BodyIdle /\ RepeatIdle /\ EngineIdle /\ ConnIdle /\ AnalyzeIdle /\ LockIdle

SpecGateFair == InitGateFair /\ [][GateFairNext]_vars /\ GateFairness

====
